---- MODULE Spec2Model ----
(***************************************************************************)
(* Friend Link: the peer-to-peer synchronisation engine of the launcher    *)
(* (src-tauri/src/friend_link).  One local instance with its persisted     *)
(* session record, the peers of its group, and the commands of the engine. *)
(***************************************************************************)
EXTENDS Integers, Sequences, FiniteSets, TLC

(* ------------------------------ bounds -------------------------------- *)
\* Distinct versions an entry or a config file can have (0 is "absent").
MaxVersion == 2
\* Capacity of the listener's nonce cache (the program's MAX_SEEN_NONCES is
\* 4096; the eviction rule is the same at any capacity).
MaxSeenNonces == 2
\* Steps of the local clock, of the allowed skew each.
MaxClockSteps == 2
\* Frames received (listener and client) in one behaviour.
MaxFrames == 4
\* Changes made from outside the sync engine in one behaviour: edits of an
\* instance, peers and provider going up or down, session administration.
MaxEdits == 3

(* ------------------------ program constants -------------------------- *)
MAX_PEERS == 8
PEER_LIMIT == 8
MAX_CLOCK_SKEW_MS == 120000

(* ----------------------------- universe ------------------------------- *)
Peers == {"A", "B"}
NoPeer == "none"
LockKeySeq == <<"lock::modrinth::mods::e1">>
ConfigKeySeq == <<"config::options.txt">>
LockKeys == {LockKeySeq[i] : i \in 1..Len(LockKeySeq)}
ConfigKeys == {ConfigKeySeq[i] : i \in 1..Len(ConfigKeySeq)}
Keys == LockKeys \cup ConfigKeys
Absent == 0
Values == 0..MaxVersion
Modes == {"manual", "prelaunch"}

VARIABLES
    lock,          \* lock.json of the local instance: key -> version (0 absent)
    config,        \* allowlisted config files of the local instance
    files,         \* content file of a lock entry present on disk
    peer_lock,     \* each peer's lock.json
    peer_config,   \* each peer's config files
    peer_files,    \* each peer's content files
    peer_up,       \* the peer's listener is reachable
    provider_has,  \* the provider can deliver verified bytes
    session,       \* the persisted session record of the instance
    result,        \* what the last command returned
    edits,         \* outside changes made so far
    now,           \* the local clock, in milliseconds
    seen_nonces,   \* the nonce cache of the listener thread
    accepted_since,\* per nonce: frames the listener accepted after it (-1: never)
    client_seen,   \* nonces of the responses the client has acted upon
    net_log,       \* what the last received frame led to
    store_file,    \* the store file on disk: whether it exists, and its text
    command,       \* the thread running a command: its position and locals
    listener,      \* the listener thread: its position, socket and locals
    listener_map,  \* the registered listener handle and its stop channel
    touched,       \* the file path the engine last built, and what it did there
    drift,         \* a drift preview over typed lock entries: its inputs and items
    settings,      \* the session's settings, and the last invite built from it
    hashing,       \* two descriptions of a lock entry, and their digests
    fetching,      \* a run of the binary fetcher: what it is given, and what it did
    ordering,      \* runs of the merge over maps handed out in any order
    editing,       \* a config file, and the editors loading and saving it
    serving        \* the listener threads of an instance, and the calls that start them

net_vars == <<now, seen_nonces, accepted_since, client_seen, net_log>>

thread_vars == <<store_file, command, listener, listener_map>>

\* What the sync engine's and the frame checks' steps leave alone.
\* The state of the parts modelled last.
late_vars == <<editing, serving>>

more_vars == <<fetching, ordering, late_vars>>

ext_vars == <<thread_vars, touched, drift, settings, hashing, more_vars>>

vars == <<lock, config, files, peer_lock, peer_config, peer_files, peer_up,
          provider_has, session, result, edits, now, seen_nonces, accepted_since,
          client_seen, net_log, ext_vars>>

(* ------------------------- state collection --------------------------- *)
\* Digest of a lock entry.
lock_entry_hash(v) == <<"sha256", "lock_entry", v>>

\* Digest of a config file's bytes.
config_file_hash(v) == <<"sha256", "config_file", v>>

EntryHash(k, v) == IF k \in LockKeys THEN lock_entry_hash(v) ELSE config_file_hash(v)

\* (key, hash, kind) of every entry and file that exists.
state_manifest(l, c) ==
    {<<k, lock_entry_hash(l[k]), "lock_entry">> : k \in {x \in LockKeys : l[x] # Absent}}
    \cup {<<k, config_file_hash(c[k]), "config_file">> : k \in {x \in ConfigKeys : c[x] # Absent}}

collect_sync_state(l, c) ==
    [state_hash |-> <<"sha256", state_manifest(l, c)>>,
     lock_entries |-> l,
     config_files |-> c]

(* --------------------------- session record --------------------------- *)
NoSnapshot == [present |-> FALSE, state_hash |-> <<>>, manifest |-> {}]

Unlinked ==
    [linked |-> FALSE, peers |-> <<>>, trusted_peer_ids |-> <<>>,
     trusted_peer_ids_initialized |-> FALSE, bootstrap_host_peer_id |-> NoPeer,
     last_good_snapshot |-> NoSnapshot, pending_conflicts |-> <<>>, sync_mods |-> TRUE]

PeerIds(s) == {s.peers[i] : i \in 1..Len(s.peers)}

\* The ids of a list, as the HashSet the code collects them into.
IdSet(ids) == {ids[i] : i \in 1..Len(ids)}

\* str::trim on the ids that occur: an id typed with blanks around it, and
\* an id of blanks only.
trim(id) ==
    IF id = " A " THEN "A"
    ELSE IF id = "B " THEN "B"
    ELSE IF id = " " THEN ""
    ELSE id

\* The loop of normalize_trusted_peer_ids over input, out being the list
\* built so far: an id is trimmed, then dropped when empty, when no peer of
\* the session has it, or when it is in the list already.
RECURSIVE normalize_trusted_loop(_, _, _)
normalize_trusted_loop(s, input, out) ==
    IF input = <<>> THEN out
    ELSE normalize_trusted_loop(s, Tail(input),
             IF trim(Head(input)) = "" THEN out
             ELSE IF trim(Head(input)) \notin PeerIds(s) THEN out
             ELSE IF trim(Head(input)) \in IdSet(out) THEN out
             ELSE Append(out, trim(Head(input))))

\* Faulty normalization: a list left empty is filled with every peer.
normalize_trusted_peer_ids_autofill(s, input) ==
    IF normalize_trusted_loop(s, input, <<>>) = <<>> THEN s.peers
    ELSE normalize_trusted_loop(s, input, <<>>)

normalize_trusted_peer_ids(s, input) == normalize_trusted_loop(s, input, <<>>)

default_trusted_peer_ids(s) == s.peers

\* Faulty trust: every peer of the session counts as trusted.
trusted_set_everyone(s) == PeerIds(s)

\* The trusted ids of session s as the set the merge and the fetcher look
\* peers up in.
trusted_set(s) == IdSet(normalize_trusted_peer_ids(s, s.trusted_peer_ids))

\* Faulty initialization: an empty trusted list is filled with every peer
\* whether or not the flag is set.
ensure_trusted_peer_ids_refill(s) ==
    IF normalize_trusted_peer_ids(s, s.trusted_peer_ids) = <<>> /\ s.peers # <<>>
    THEN [s EXCEPT !.trusted_peer_ids = default_trusted_peer_ids(s),
                   !.trusted_peer_ids_initialized = TRUE]
    ELSE [s EXCEPT !.trusted_peer_ids = normalize_trusted_peer_ids(s, s.trusted_peer_ids),
                   !.trusted_peer_ids_initialized = @ \/ s.peers # <<>>]

ensure_trusted_peer_ids_initialized(s) ==
    LET normalized == normalize_trusted_peer_ids(s, s.trusted_peer_ids) IN
    IF s.trusted_peer_ids_initialized
    THEN [s EXCEPT !.trusted_peer_ids = normalized]
    ELSE IF normalized = <<>>
         THEN IF s.peers = <<>>
              THEN [s EXCEPT !.trusted_peer_ids = normalized]
              ELSE [s EXCEPT !.trusted_peer_ids = default_trusted_peer_ids(s),
                             !.trusted_peer_ids_initialized = TRUE]
         ELSE [s EXCEPT !.trusted_peer_ids = normalized,
                        !.trusted_peer_ids_initialized = TRUE]

normalize_session_friend_link_settings(s) == ensure_trusted_peer_ids_initialized(s)

lock_entry_sync_enabled(s, k) == s.sync_mods

\* key -> hash of the last-good manifest.
lock_manifest_map(snapshot) ==
    [k \in {e[1] : e \in snapshot.manifest} |->
        (CHOOSE e \in snapshot.manifest : e[1] = k)[2]]

store_last_good(s, local_state) ==
    [s EXCEPT !.last_good_snapshot =
        [present |-> TRUE,
         state_hash |-> local_state.state_hash,
         manifest |-> state_manifest(local_state.lock_entries, local_state.config_files)]]

(* ------------------------------ transport ----------------------------- *)
\* state_request to a peer: its freshly collected state, or a failure.
request_state(p) ==
    [ok |-> peer_up[p], state |-> collect_sync_state(peer_lock[p], peer_config[p])]

\* file_request to a peer: found iff it has the entry and its content file.
request_lock_entry_file(p, k) ==
    peer_up[p] /\ peer_lock[p][k] # Absent /\ peer_files[p][k]

(* ----------------------------- reconciler ----------------------------- *)
Action(kind, key, peer_id, message) ==
    [kind |-> kind, key |-> key, peer_id |-> peer_id, applied |-> TRUE, message |-> message]

KindOf(k) == IF k \in LockKeys THEN "lock_entry" ELSE "config_file"

\* A conflict record; mine is absent (0) or the local value.
conflict_from(k, peer_id, mine, theirs) ==
    [kind |-> KindOf(k), key |-> k, peer_id |-> peer_id,
     mine_hash |-> IF mine = Absent THEN <<"absent">> ELSE EntryHash(k, mine),
     theirs_hash |-> EntryHash(k, theirs),
     theirs_value |-> theirs]

\* Faulty merge: a key changed on both sides is overwritten by the peer's
\* value instead of being recorded as a conflict.
MergeKey_overwrite_diverged(acc, k, p, remote, s, baseline, seed) ==
    LET is_lock == k \in LockKeys
        local == IF is_lock THEN acc.lock[k] ELSE acc.config[k]
        theirs == IF is_lock THEN remote.lock_entries[k] ELSE remote.config_files[k]
        has_base == k \in DOMAIN baseline
        remote_changed ==
            IF has_base THEN baseline[k] # EntryHash(k, theirs) ELSE TRUE
    IN  IF theirs = Absent THEN acc
        ELSE IF is_lock /\ ~lock_entry_sync_enabled(s, k) THEN acc
        ELSE IF local # Absent /\ EntryHash(k, local) = EntryHash(k, theirs) THEN acc
        ELSE IF remote_changed
             THEN [acc EXCEPT
                     !.lock = IF is_lock THEN [@ EXCEPT ![k] = theirs] ELSE @,
                     !.config = IF is_lock THEN @ ELSE [@ EXCEPT ![k] = theirs],
                     !.preferred = IF is_lock THEN [@ EXCEPT ![k] = p] ELSE @,
                     !.actions = Append(@, Action(KindOf(k), k, p, "Applied"))]
             ELSE acc

\* Faulty merge: the bootstrap-seed branch is missing, a diverged key is
\* always a conflict.
MergeKey_no_seed(acc, k, p, remote, s, baseline, seed) ==
    LET is_lock == k \in LockKeys
        local == IF is_lock THEN acc.lock[k] ELSE acc.config[k]
        theirs == IF is_lock THEN remote.lock_entries[k] ELSE remote.config_files[k]
        has_base == k \in DOMAIN baseline
        local_changed ==
            IF has_base
            THEN local = Absent \/ EntryHash(k, local) # baseline[k]
            ELSE local # Absent
        remote_changed ==
            IF has_base THEN baseline[k] # EntryHash(k, theirs) ELSE TRUE
    IN  IF theirs = Absent THEN acc
        ELSE IF is_lock /\ ~lock_entry_sync_enabled(s, k) THEN acc
        ELSE IF local # Absent /\ EntryHash(k, local) = EntryHash(k, theirs) THEN acc
        ELSE IF ~local_changed \/ local = Absent
             THEN [acc EXCEPT
                     !.lock = IF is_lock THEN [@ EXCEPT ![k] = theirs] ELSE @,
                     !.config = IF is_lock THEN @ ELSE [@ EXCEPT ![k] = theirs],
                     !.preferred = IF is_lock THEN [@ EXCEPT ![k] = p] ELSE @,
                     !.actions = Append(@, Action(KindOf(k), k, p, "Applied"))]
        ELSE IF remote_changed
             THEN [acc EXCEPT !.conflicts = Append(@, conflict_from(k, p, local, theirs))]
             ELSE acc

\* The three-way merge of one remote key of peer p into the running maps.
MergeKey(acc, k, p, remote, s, baseline, seed) ==
    LET is_lock == k \in LockKeys
        local == IF is_lock THEN acc.lock[k] ELSE acc.config[k]
        theirs == IF is_lock THEN remote.lock_entries[k] ELSE remote.config_files[k]
        has_base == k \in DOMAIN baseline
        local_changed ==
            IF has_base
            THEN local = Absent \/ EntryHash(k, local) # baseline[k]
            ELSE local # Absent
        remote_changed ==
            IF has_base THEN baseline[k] # EntryHash(k, theirs) ELSE TRUE
        adopt(message) ==
            [acc EXCEPT
                !.lock = IF is_lock THEN [@ EXCEPT ![k] = theirs] ELSE @,
                !.config = IF is_lock THEN @ ELSE [@ EXCEPT ![k] = theirs],
                !.preferred = IF is_lock THEN [@ EXCEPT ![k] = p] ELSE @,
                !.actions = Append(@, Action(KindOf(k), k, p, message))]
    IN  IF theirs = Absent THEN acc
        ELSE IF is_lock /\ ~lock_entry_sync_enabled(s, k) THEN acc
        ELSE IF local # Absent /\ EntryHash(k, local) = EntryHash(k, theirs) THEN acc
        ELSE IF ~local_changed \/ local = Absent THEN adopt("Applied")
        ELSE IF remote_changed /\ seed THEN adopt("Applied initial baseline")
        ELSE IF remote_changed
             THEN [acc EXCEPT !.conflicts = Append(@, conflict_from(k, p, local, theirs))]
             ELSE acc

RECURSIVE MergeKeys(_, _, _, _, _, _, _)
MergeKeys(acc, ks, p, remote, s, baseline, seed) ==
    IF ks = <<>> THEN acc
    ELSE MergeKeys(MergeKey(acc, Head(ks), p, remote, s, baseline, seed),
                   Tail(ks), p, remote, s, baseline, seed)

\* Faulty seeding: every peer may overwrite diverged local values.
should_seed_always(s, p) == TRUE

\* Bootstrap seeding: without a last-good snapshot, the recorded bootstrap
\* host or the only peer of the session may overwrite diverged local values.
should_seed_from_peer(s, p) ==
    LET bootstrap_host_peer_id == s.bootstrap_host_peer_id
        seed_from_host_snapshot ==
            ~s.last_good_snapshot.present /\ bootstrap_host_peer_id # NoPeer
        seed_from_single_peer_without_baseline ==
            ~s.last_good_snapshot.present /\ Len(s.peers) = 1
        is_bootstrap_host_peer == seed_from_host_snapshot /\ bootstrap_host_peer_id = p
    IN  is_bootstrap_host_peer \/ seed_from_single_peer_without_baseline

\* One iteration of the peer loop of reconcile_internal.
ReconcilePeer(acc, p, s, baseline, local_state) ==
    IF ~request_state(p).ok
    THEN [acc EXCEPT !.offline_peers = @ + 1, !.online = @ \ {p}]
    ELSE IF p \notin trusted_set(s)
         THEN [acc EXCEPT
                  !.online = @ \cup {p},
                  !.skipped_review_only_peers =
                      IF request_state(p).state.state_hash # local_state.state_hash
                      THEN @ + 1 ELSE @]
         ELSE MergeKeys(
                  MergeKeys([acc EXCEPT !.online = @ \cup {p}], LockKeySeq, p,
                            request_state(p).state, s, baseline,
                            should_seed_from_peer(s, p)),
                  ConfigKeySeq, p, request_state(p).state, s, baseline,
                  should_seed_from_peer(s, p))

RECURSIVE PeerLoop(_, _, _, _, _)
PeerLoop(acc, ps, s, baseline, local_state) ==
    IF ps = <<>> THEN acc
    ELSE PeerLoop(ReconcilePeer(acc, Head(ps), s, baseline, local_state),
                  Tail(ps), s, baseline, local_state)

(* --------------------------- binary fetcher --------------------------- *)
supports_binary_sync(k) == k \in LockKeys

\* Faulty fetcher: a file nobody could deliver is not counted as a failure.
FetchKey_swallow_failure(st, k, s, online, lock_map, preferred_peer_by_key) ==
    IF lock_map[k] = Absent \/ ~lock_entry_sync_enabled(s, k) THEN st
    ELSE IF st.files[k] /\ preferred_peer_by_key[k] = NoPeer THEN st
    ELSE IF \E p \in PeerIds(s) :
               /\ p \in online
               /\ p \in trusted_set(s)
               /\ request_lock_entry_file(p, k)
         THEN [st EXCEPT !.files[k] = TRUE,
                         !.actions = Append(@, Action("lock_entry", k, "peer",
                                                      "Synced binary"))]
    ELSE st

\* One entry of the fetcher's loop; st = [files, failure_count, actions].
FetchKey(st, k, s, online, lock_map, preferred_peer_by_key) ==
    LET trusted_peer_ids == trusted_set(s)
        peer_endpoint_by_id == {p \in PeerIds(s) : p \in online /\ p \in trusted_peer_ids}
        missing == ~st.files[k]
        should_force_refresh == preferred_peer_by_key[k] # NoPeer
        from_peer == \E p \in peer_endpoint_by_id : request_lock_entry_file(p, k)
    IN  IF lock_map[k] = Absent THEN st
        ELSE IF ~supports_binary_sync(k) THEN st
        ELSE IF ~lock_entry_sync_enabled(s, k) THEN st
        ELSE IF ~missing /\ ~should_force_refresh THEN st
        ELSE IF from_peer
             THEN [st EXCEPT !.files[k] = TRUE,
                             !.actions = Append(@, Action("lock_entry", k,
                                 IF should_force_refresh THEN preferred_peer_by_key[k] ELSE "peer",
                                 "Synced binary"))]
        ELSE IF provider_has
             THEN [st EXCEPT !.files[k] = TRUE,
                             !.actions = Append(@, Action("lock_entry", k, "provider",
                                                          "Recovered binary"))]
        ELSE [st EXCEPT !.failure_count = @ + 1]

RECURSIVE FetchKeys(_, _, _, _, _, _)
FetchKeys(st, ks, s, online, lock_map, preferred) ==
    IF ks = <<>> THEN st
    ELSE FetchKeys(FetchKey(st, Head(ks), s, online, lock_map, preferred), Tail(ks),
                   s, online, lock_map, preferred)

\* online: the peers whose online flag this run has set; every run refreshes
\* the flag of every peer before the fetcher reads it.
sync_lock_entry_binaries(s, online, lock_map, preferred, fl, actions) ==
    FetchKeys([files |-> fl, failure_count |-> 0, actions |-> actions],
              LockKeySeq, s, online, lock_map, preferred)

NoPreferred == [k \in LockKeys |-> NoPeer]

\* What the last command returned; resolved echoes the request of
\* resolve_conflicts, conflict by conflict.
NoResult ==
    [op |-> "none", status |-> "none", mode |-> "none", actions |-> <<>>,
     conflicts |-> <<>>, blocked_reason |-> "none", local_state_hash |-> <<>>,
     offline_peers |-> 0, binary_sync_failures |-> 0, skipped_review_only |-> 0,
     remaining_changes |-> 0, resolved |-> <<>>]

\* Faulty ladder: offline peers do not degrade the status.
status_ladder_ignore_offline(s, mode, conflicts, binary_sync_failures, offline_peers, local_after) ==
    IF conflicts # <<>> THEN <<"conflicted", "none">>
    ELSE IF binary_sync_failures > 0 /\ mode = "prelaunch"
         THEN <<"error", "could not fetch required content files">>
    ELSE IF binary_sync_failures > 0 THEN <<"degraded_missing_files", "none">>
    ELSE <<"synced", "none">>

\* Faulty ladder: an offline peer blocks a prelaunch run even when the local
\* state is the last-good one.
status_ladder_offline_always_stale(s, mode, conflicts, binary_sync_failures, offline_peers, local_after) ==
    IF conflicts # <<>> THEN <<"conflicted", "none">>
    ELSE IF binary_sync_failures > 0 /\ mode = "prelaunch"
         THEN <<"error", "could not fetch required content files">>
    ELSE IF binary_sync_failures > 0 THEN <<"degraded_missing_files", "none">>
    ELSE IF offline_peers > 0
         THEN IF mode = "prelaunch"
              THEN <<"blocked_offline_stale", "local state differs from snapshot">>
              ELSE <<"error", "none">>
    ELSE <<"synced", "none">>

\* The status ladder at the end of reconcile_internal: the status of a run
\* before the trust check, with its blocked_reason.
status_ladder(s, mode, conflicts, binary_sync_failures, offline_peers, local_after) ==
    IF conflicts # <<>> THEN <<"conflicted", "none">>
    ELSE IF binary_sync_failures > 0 /\ mode = "prelaunch"
         THEN <<"error", "could not fetch required content files">>
    ELSE IF binary_sync_failures > 0 THEN <<"degraded_missing_files", "none">>
    ELSE IF offline_peers > 0
         THEN IF s.last_good_snapshot.present
              THEN IF local_after.state_hash = s.last_good_snapshot.state_hash
                   THEN <<"degraded_offline_last_good", "none">>
                   ELSE IF mode = "prelaunch"
                        THEN <<"blocked_offline_stale", "local state differs from snapshot">>
                        ELSE <<"error", "none">>
              ELSE IF mode = "prelaunch"
                   THEN <<"blocked_offline_stale", "no last-good snapshot">>
                   ELSE <<"error", "none">>
    ELSE <<"synced", "none">>

\* Faulty trust check: skipped untrusted changes do not block.
blocked_untrusted_never(mode, skipped_review_only_peers, first) == first

\* An otherwise clean run that skipped an untrusted peer's changes is blocked.
blocked_untrusted(mode, skipped_review_only_peers, first) ==
    IF skipped_review_only_peers > 0 /\ first[1] = "synced"
    THEN <<"blocked_untrusted",
           IF mode = "prelaunch" THEN "trust those peers before launch" ELSE first[2]>>
    ELSE first

ReconcileStatus(s, mode, conflicts, binary_sync_failures, offline_peers, skipped_review_only_peers, local_after) ==
    blocked_untrusted(mode, skipped_review_only_peers,
        status_ladder(s, mode, conflicts, binary_sync_failures, offline_peers, local_after))

\* The merge: every peer of the session asked for its state, in order.
reconcile_merge(s, d) ==
    PeerLoop([lock |-> d.lock, config |-> d.config, actions |-> <<>>,
              conflicts |-> <<>>, offline_peers |-> 0, skipped_review_only_peers |-> 0,
              preferred |-> NoPreferred, online |-> {}],
             s.peers, s,
             IF s.last_good_snapshot.present
             THEN lock_manifest_map(s.last_good_snapshot) ELSE <<>>,
             collect_sync_state(d.lock, d.config))

\* The second fetcher pass, which only a non-prelaunch run with failures makes.
reconcile_retry(s, mode, acc, pass1) ==
    IF pass1.failure_count > 0 /\ mode # "prelaunch"
    THEN sync_lock_entry_binaries(s, acc.online, acc.lock, acc.preferred, pass1.files,
                                  pass1.actions)
    ELSE pass1

reconcile_fetch(s, mode, d, acc) ==
    reconcile_retry(s, mode, acc,
        sync_lock_entry_binaries(s, acc.online, acc.lock, acc.preferred, d.files,
                                 acc.actions))

\* The metadata is written only when the merge produced an action.
reconcile_written(d, acc) ==
    [lock |-> IF acc.actions # <<>> THEN acc.lock ELSE d.lock,
     config |-> IF acc.actions # <<>> THEN acc.config ELSE d.config]

\* Faulty snapshot: taken from the disk state the run started with.
reconcile_session_stale(s, acc, status, local_after) ==
    IF status = "synced"
    THEN [store_last_good([s EXCEPT !.pending_conflicts = acc.conflicts],
                          collect_sync_state(lock, config))
             EXCEPT !.bootstrap_host_peer_id = NoPeer]
    ELSE [s EXCEPT !.pending_conflicts = acc.conflicts]

\* The session persisted at the end of the run.
reconcile_session(s, acc, status, local_after) ==
    IF status = "synced"
    THEN [store_last_good([s EXCEPT !.pending_conflicts = acc.conflicts], local_after)
             EXCEPT !.bootstrap_host_peer_id = NoPeer]
    ELSE [s EXCEPT !.pending_conflicts = acc.conflicts]

reconcile_result(s, mode, acc, fetched, written, local_after, st) ==
    [lock |-> written.lock, config |-> written.config, files |-> fetched.files,
     session |-> reconcile_session(s, acc, st[1], local_after),
     wrote_binary |-> fetched.actions # acc.actions,
     result |->
        [NoResult EXCEPT
            !.op = "reconcile", !.status = st[1], !.mode = mode,
            !.actions = fetched.actions, !.conflicts = acc.conflicts,
            !.blocked_reason = st[2], !.local_state_hash = local_after.state_hash,
            !.offline_peers = acc.offline_peers,
            !.binary_sync_failures = fetched.failure_count,
            !.skipped_review_only = acc.skipped_review_only_peers]]

reconcile_status(s, mode, acc, fetched, written, local_after) ==
    reconcile_result(s, mode, acc, fetched, written, local_after,
        ReconcileStatus(s, mode, acc.conflicts, fetched.failure_count, acc.offline_peers,
                        acc.skipped_review_only_peers, local_after))

reconcile_collect(s, mode, acc, fetched, written) ==
    reconcile_status(s, mode, acc, fetched, written,
                     collect_sync_state(written.lock, written.config))

\* CHOOSE o \in {f(x) : x \in {e}} : TRUE is f(e), with e evaluated once.
reconcile_merged(s, mode, d, acc) ==
    CHOOSE o \in {reconcile_collect(s, mode, acc, fetched, reconcile_written(d, acc)) :
                      fetched \in {reconcile_fetch(s, mode, d, acc)}} : TRUE

reconcile_normalized(s, mode, d) ==
    CHOOSE o \in {reconcile_merged(s, mode, d, acc) : acc \in {reconcile_merge(s, d)}} : TRUE

\* The whole run on disk state d = [lock, config, files]: what it leaves on
\* disk, in the session and in the result.
reconcile_internal(s0, mode, d) ==
    CHOOSE o \in {reconcile_normalized(s, mode, d) :
                      s \in {normalize_session_friend_link_settings(s0)}} : TRUE

Disk == [lock |-> lock, config |-> config, files |-> files]

Aborted(op, mode) == [NoResult EXCEPT !.op = op, !.status = "aborted", !.mode = mode]

\* reconcile(mode).  fail_at names the fallible step that returns Err:
\* the first content-file write, or the final store write.
Reconcile(mode, fail_at) ==
    /\ session.linked
    /\ \E o \in {reconcile_internal(session, mode, Disk)} :
       /\ fail_at = "binary_write" => o.wrote_binary
       /\ lock' = o.lock
       /\ config' = o.config
       /\ files' = IF fail_at = "binary_write" THEN files ELSE o.files
       /\ session' = IF fail_at = "none" THEN o.session ELSE session
       /\ result' = IF fail_at = "none" THEN o.result ELSE Aborted("reconcile", mode)
    /\ UNCHANGED <<peer_lock, peer_config, peer_files, peer_up, provider_has, edits>>
    /\ UNCHANGED net_vars
    /\ UNCHANGED ext_vars

(* ----------------------- session life cycle --------------------------- *)
\* create_session: an existing session is kept, a new one starts empty.
CreateSession ==
    /\ edits < MaxEdits
    /\ edits' = edits + 1
    /\ session' = normalize_session_friend_link_settings(
                      IF session.linked THEN session ELSE [Unlinked EXCEPT !.linked = TRUE])
    /\ result' = NoResult
    /\ UNCHANGED <<lock, config, files, peer_lock, peer_config, peer_files, peer_up,
                   provider_has>>
    /\ UNCHANGED net_vars
    /\ UNCHANGED ext_vars

\* upsert_peer for each id of a sequence, in order.
RECURSIVE upsert_peers(_, _)
upsert_peers(ps, ids) ==
    IF ids = <<>> THEN ps
    ELSE upsert_peers(IF \E i \in 1..Len(ps) : ps[i] = Head(ids) THEN ps
                      ELSE Append(ps, Head(ids)), Tail(ids))

\* join_session with an invite of host: hello to the host, whose ack lists the
\* other peers it knows (others).
JoinSession(host, others) ==
    /\ edits < MaxEdits
    /\ edits' = edits + 1
    /\ peer_up[host]
    /\ Len(upsert_peers(<<host>>, others)) + 1 <= MAX_PEERS
    /\ LET fresh == [Unlinked EXCEPT !.linked = TRUE, !.bootstrap_host_peer_id = host]
           joined == [fresh EXCEPT !.peers = upsert_peers(<<host>>, others)]
       IN session' = normalize_session_friend_link_settings(joined)
    /\ result' = NoResult
    /\ UNCHANGED <<lock, config, files, peer_lock, peer_config, peer_files, peer_up,
                   provider_has>>
    /\ UNCHANGED net_vars
    /\ UNCHANGED ext_vars

LeaveSession ==
    /\ edits < MaxEdits
    /\ edits' = edits + 1
    /\ session' = Unlinked
    /\ result' = NoResult
    /\ UNCHANGED <<lock, config, files, peer_lock, peer_config, peer_files, peer_up,
                   provider_has>>
    /\ UNCHANGED net_vars
    /\ UNCHANGED ext_vars

\* Faulty limit: the listener counts the list against the whole group size,
\* forgetting the instance itself.
hello_group_full_forgets_self(s, p) == p \notin PeerIds(s) /\ Len(s.peers) >= PEER_LIMIT

\* The hello branch of the listener: a new peer is appended unless the group
\* is full.
hello_group_full(s, p) == p \notin PeerIds(s) /\ Len(s.peers) >= PEER_LIMIT - 1

hello_session(s, p) == [s EXCEPT !.peers = upsert_peers(@, <<p>>)]

\* The listener's answer to an accepted hello of peer p.
Hello(p) ==
    /\ edits < MaxEdits
    /\ edits' = edits + 1
    /\ session.linked
    /\ ~hello_group_full(session, p)
    /\ session' = hello_session(session, p)
    /\ result' = NoResult
    /\ UNCHANGED <<lock, config, files, peer_lock, peer_config, peer_files, peer_up,
                   provider_has>>
    /\ UNCHANGED net_vars
    /\ UNCHANGED ext_vars

GetStatus ==
    /\ session.linked
    /\ session' = normalize_session_friend_link_settings(session)
    /\ result' = NoResult
    /\ UNCHANGED <<lock, config, files, peer_lock, peer_config, peer_files, peer_up,
                   provider_has, edits>>
    /\ UNCHANGED net_vars
    /\ UNCHANGED ext_vars

\* The trusted_peer_ids a set_guardrails request can carry: lists of ids, with
\* a repeated id, an id no peer has, an id with blanks around it, a blank id.
TrustedInputs ==
    {<<>>, <<"A">>, <<"B">>, <<"A", "B">>, <<"B", "A">>, <<"B", "B">>, <<" A ">>,
     <<"Z", "A">>, <<" ", "B ">>}

SetGuardrails(trusted_input, sync_mods) ==
    /\ edits < MaxEdits
    /\ edits' = edits + 1
    /\ session.linked
    /\ LET s == normalize_session_friend_link_settings(session) IN
       session' = [s EXCEPT !.trusted_peer_ids = normalize_trusted_peer_ids(s, trusted_input),
                            !.trusted_peer_ids_initialized = TRUE,
                            !.sync_mods = IF sync_mods = "none" THEN @ ELSE sync_mods = "true"]
    /\ result' = NoResult
    /\ UNCHANGED <<lock, config, files, peer_lock, peer_config, peer_files, peer_up,
                   provider_has>>
    /\ UNCHANGED net_vars
    /\ UNCHANGED ext_vars

(* ----------------------- drift preview and selective sync -------------- *)
\* collect_remote_peer_states: the peers that answer, in session order, and
\* the session with every peer's online flag refreshed.
RECURSIVE AnsweringPeers(_)
AnsweringPeers(ps) ==
    IF ps = <<>> THEN <<>>
    ELSE (IF request_state(Head(ps)).ok THEN <<Head(ps)>> ELSE <<>>)
         \o AnsweringPeers(Tail(ps))

collect_remote_peer_states(s) ==
    [session |-> s, online |-> {p \in PeerIds(s) : request_state(p).ok},
     peer_states |-> AnsweringPeers(s.peers)]

DriftItem(key, change, p, s) ==
    [key |-> key, kind |-> KindOf(key), change |-> change, peer_id |-> p,
     trusted_peer |-> p \in trusted_set(s)]

ValueIn(state, k) == IF k \in LockKeys THEN state.lock_entries[k] ELSE state.config_files[k]

\* Items "added"/"changed" of one peer over a key sequence.
RECURSIVE ChangedItems(_, _, _, _, _)
ChangedItems(ks, p, s, local_state, remote) ==
    IF ks = <<>> THEN <<>>
    ELSE LET k == Head(ks)
             mine == ValueIn(local_state, k)
             theirs == ValueIn(remote, k)
             item ==
               IF theirs = Absent THEN <<>>
               ELSE IF k \in LockKeys /\ ~lock_entry_sync_enabled(s, k) THEN <<>>
               ELSE IF mine = Absent THEN <<DriftItem(k, "added", p, s)>>
               ELSE IF EntryHash(k, mine) # EntryHash(k, theirs)
                    THEN <<DriftItem(k, "changed", p, s)>>
               ELSE <<>>
         IN item \o ChangedItems(Tail(ks), p, s, local_state, remote)

\* Items "removed" of one peer over a key sequence.
RECURSIVE RemovedItems(_, _, _, _, _)
RemovedItems(ks, p, s, local_state, remote) ==
    IF ks = <<>> THEN <<>>
    ELSE LET k == Head(ks)
             item ==
               IF ValueIn(local_state, k) = Absent THEN <<>>
               ELSE IF k \in LockKeys /\ ~lock_entry_sync_enabled(s, k) THEN <<>>
               ELSE IF ValueIn(remote, k) # Absent THEN <<>>
               ELSE <<DriftItem(k, "removed", p, s)>>
         IN item \o RemovedItems(Tail(ks), p, s, local_state, remote)

RECURSIVE PreviewItems(_, _, _, _)
PreviewItems(ps, single, s, local_state) ==
    IF ps = <<>> THEN <<>>
    ELSE LET p == Head(ps)
             remote == request_state(p).state
         IN ChangedItems(LockKeySeq, p, s, local_state, remote)
            \o (IF single THEN RemovedItems(LockKeySeq, p, s, local_state, remote) ELSE <<>>)
            \o ChangedItems(ConfigKeySeq, p, s, local_state, remote)
            \o (IF single THEN RemovedItems(ConfigKeySeq, p, s, local_state, remote) ELSE <<>>)
            \o PreviewItems(Tail(ps), single, s, local_state)

preview_of(s, peer_states, items) ==
    [items |-> items,
     total_changes |-> Len(items),
     status |->
        IF s.pending_conflicts # <<>> THEN "conflicted"
        ELSE IF s.peers = <<>> THEN "no_peers"
        ELSE IF peer_states = <<>> THEN "offline"
        ELSE IF items = <<>> THEN "in_sync"
        ELSE "unsynced"]

build_friend_link_drift_preview(s, local_state, peer_states) ==
    preview_of(s, peer_states,
               PreviewItems(peer_states, Len(peer_states) = 1, s, local_state))

preview_friend_link_drift_inner(s, d) ==
    build_friend_link_drift_preview(s, collect_sync_state(d.lock, d.config),
                                    collect_remote_peer_states(s).peer_states)

PreviewDrift ==
    /\ session.linked
    /\ session' = normalize_session_friend_link_settings(session)
    /\ result' = [NoResult EXCEPT
                     !.op = "preview_drift",
                     !.status = preview_friend_link_drift_inner(session', Disk).status,
                     !.remaining_changes =
                         preview_friend_link_drift_inner(session', Disk).total_changes]
    /\ UNCHANGED <<lock, config, files, peer_lock, peer_config, peer_files, peer_up,
                   provider_has, edits>>
    /\ UNCHANGED net_vars
    /\ UNCHANGED ext_vars

\* One selected drift item applied to the accumulator of sync_selected.
ApplySelected(acc, item) ==
    LET k == item.key
        remote == request_state(item.peer_id).state
    IN  IF item.kind = "lock_entry"
        THEN IF item.change = "removed"
             THEN IF acc.lock[k] = Absent THEN acc
                  ELSE [acc EXCEPT !.lock[k] = Absent, !.files[k] = FALSE,
                                   !.touched_lock = TRUE,
                                   !.actions = Append(@, Action("lock_entry", k, item.peer_id,
                                                                "Removed"))]
             ELSE IF remote.lock_entries[k] = Absent THEN acc
             ELSE [acc EXCEPT !.lock[k] = remote.lock_entries[k],
                              !.selected_lock_entries[k] = remote.lock_entries[k],
                              !.preferred[k] = item.peer_id,
                              !.touched_lock = TRUE,
                              !.actions = Append(@, Action("lock_entry", k, item.peer_id,
                                                           "Applied"))]
        ELSE IF item.change = "removed"
             THEN [acc EXCEPT !.config[k] = Absent, !.touched_config = TRUE,
                              !.actions = Append(@, Action("config_file", k, item.peer_id,
                                                           "Removed"))]
             ELSE IF remote.config_files[k] = Absent THEN acc
             ELSE [acc EXCEPT !.config[k] = remote.config_files[k],
                              !.touched_config = TRUE,
                              !.actions = Append(@, Action("config_file", k, item.peer_id,
                                                           "Applied"))]

RECURSIVE ApplySelectedItems(_, _)
ApplySelectedItems(acc, items) ==
    IF items = <<>> THEN acc
    ELSE ApplySelectedItems(ApplySelected(acc, Head(items)), Tail(items))

SelectedMode(metadata_only) == IF metadata_only THEN "selected_metadata" ELSE "selected_all"

\* The keys of the items of a sequence.
ItemKeys(items) == {items[i].key : i \in 1..Len(items)}

\* Preview items whose key is not in keys.
RECURSIVE ItemsOutside(_, _)
ItemsOutside(items, keys) ==
    IF items = <<>> THEN <<>>
    ELSE (IF Head(items).key \in keys THEN <<>> ELSE <<Head(items)>>)
         \o ItemsOutside(Tail(items), keys)

\* Faulty selection: the items to apply are taken whatever the trust of
\* their peer.
RequestedItems_any_peer(items, keys, trusted) ==
    SelectSeq(items, LAMBDA item : /\ keys = {} \/ item.key \in keys
                                   /\ trusted \/ ~item.trusted_peer)

\* Items requested by key (no key requested = all), of trusted peers or not.
RECURSIVE RequestedItems(_, _, _)
RequestedItems(items, keys, trusted) ==
    IF items = <<>> THEN <<>>
    ELSE (IF (keys = {} \/ Head(items).key \in keys) /\ Head(items).trusted_peer = trusted
          THEN <<Head(items)>> ELSE <<>>)
         \o RequestedItems(Tail(items), keys, trusted)

selected_status(failure_count, skipped_review_only_items, remaining_changes) ==
    IF failure_count > 0 THEN "degraded_missing_files"
    ELSE IF skipped_review_only_items > 0 THEN "blocked_untrusted"
    ELSE IF remaining_changes > 0 THEN "partial_pending"
    ELSE "synced"

\* Nothing selected: the early return of sync_selected.
selected_nothing(s, c, metadata_only, d, preview, skipped_review_only_items) ==
    [lock |-> d.lock, config |-> d.config, files |-> d.files, session |-> s,
     result |->
        [NoResult EXCEPT
            !.op = "sync_selected",
            !.status = IF skipped_review_only_items > 0
                       THEN "blocked_untrusted" ELSE "in_sync",
            !.mode = SelectedMode(metadata_only),
            !.local_state_hash = collect_sync_state(d.lock, d.config).state_hash,
            !.offline_peers = Cardinality(PeerIds(s) \ c.online),
            !.skipped_review_only = skipped_review_only_items,
            !.remaining_changes = preview.total_changes]]

\* Faulty selective sync: the snapshot is stored although drift remains.
selected_result_store_partial(s, c, metadata_only, acc, fetch, skipped_review_only_items, remaining_changes, status, local_after) ==
    [lock |-> acc.lock, config |-> acc.config, files |-> fetch.files,
     session |-> IF status \in {"synced", "partial_pending"}
                 THEN store_last_good(s, local_after) ELSE s,
     result |->
        [NoResult EXCEPT
            !.op = "sync_selected", !.status = status,
            !.mode = SelectedMode(metadata_only),
            !.actions = fetch.actions,
            !.local_state_hash = local_after.state_hash,
            !.offline_peers = Cardinality(PeerIds(s) \ c.online),
            !.binary_sync_failures = fetch.failure_count,
            !.skipped_review_only = skipped_review_only_items,
            !.remaining_changes = remaining_changes]]

\* Faulty selective sync: a synced outcome also clears the bootstrap host.
selected_result_clear_bootstrap(s, c, metadata_only, acc, fetch, skipped_review_only_items, remaining_changes, status, local_after) ==
    [lock |-> acc.lock, config |-> acc.config, files |-> fetch.files,
     session |-> IF status = "synced" /\ remaining_changes = 0
                 THEN [store_last_good(s, local_after) EXCEPT !.bootstrap_host_peer_id = NoPeer]
                 ELSE s,
     result |->
        [NoResult EXCEPT
            !.op = "sync_selected", !.status = status,
            !.mode = SelectedMode(metadata_only),
            !.actions = fetch.actions,
            !.local_state_hash = local_after.state_hash,
            !.offline_peers = Cardinality(PeerIds(s) \ c.online),
            !.binary_sync_failures = fetch.failure_count,
            !.skipped_review_only = skipped_review_only_items,
            !.remaining_changes = remaining_changes]]

selected_result(s, c, metadata_only, acc, fetch, skipped_review_only_items, remaining_changes, status, local_after) ==
    [lock |-> acc.lock, config |-> acc.config, files |-> fetch.files,
     session |-> IF status = "synced" /\ remaining_changes = 0
                 THEN store_last_good(s, local_after) ELSE s,
     result |->
        [NoResult EXCEPT
            !.op = "sync_selected", !.status = status,
            !.mode = SelectedMode(metadata_only),
            !.actions = fetch.actions,
            !.local_state_hash = local_after.state_hash,
            !.offline_peers = Cardinality(PeerIds(s) \ c.online),
            !.binary_sync_failures = fetch.failure_count,
            !.skipped_review_only = skipped_review_only_items,
            !.remaining_changes = remaining_changes]]

selected_fetched(s, c, metadata_only, acc, fetch, skipped_review_only_items, remaining_changes) ==
    selected_result(s, c, metadata_only, acc, fetch, skipped_review_only_items,
                    remaining_changes,
                    selected_status(fetch.failure_count, skipped_review_only_items,
                                    remaining_changes),
                    collect_sync_state(acc.lock, acc.config))

selected_applied(s, c, metadata_only, acc, skipped_review_only_items, remaining_changes) ==
    selected_fetched(s, c, metadata_only, acc,
        IF ~metadata_only /\ \E k \in LockKeys : acc.selected_lock_entries[k] # Absent
        THEN sync_lock_entry_binaries(s, c.online, acc.selected_lock_entries, acc.preferred,
                                      acc.files, acc.actions)
        ELSE [files |-> acc.files, failure_count |-> 0, actions |-> acc.actions],
        skipped_review_only_items, remaining_changes)

selected_items_chosen(s, c, metadata_only, d, preview, selected_items, skipped_review_only_items) ==
    IF selected_items = <<>>
    THEN selected_nothing(s, c, metadata_only, d, preview, skipped_review_only_items)
    ELSE selected_applied(s, c, metadata_only,
             ApplySelectedItems(
                 [lock |-> d.lock, config |-> d.config, files |-> d.files,
                  actions |-> <<>>, preferred |-> NoPreferred,
                  selected_lock_entries |-> [k \in LockKeys |-> Absent],
                  touched_lock |-> FALSE, touched_config |-> FALSE],
                 selected_items),
             skipped_review_only_items,
             Len(ItemsOutside(preview.items, ItemKeys(selected_items))))

selected_previewed(s, c, keys, metadata_only, d, preview) ==
    selected_items_chosen(s, c, metadata_only, d, preview,
                          RequestedItems(preview.items, keys, TRUE),
                          Len(RequestedItems(preview.items, keys, FALSE)))

selected_collected(s, c, keys, metadata_only, d) ==
    CHOOSE o \in {selected_previewed(s, c, keys, metadata_only, d, preview) :
                      preview \in {build_friend_link_drift_preview(
                                       s, collect_sync_state(d.lock, d.config),
                                       c.peer_states)}} : TRUE

\* sync_selected on disk state d with the requested keys (empty = all).
sync_friend_link_selected_inner(s0, keys, metadata_only, d) ==
    CHOOSE o \in {selected_collected(s, collect_remote_peer_states(s), keys, metadata_only, d) :
                      s \in {normalize_session_friend_link_settings(s0)}} : TRUE

SyncSelected(keys, metadata_only) ==
    /\ session.linked
    /\ \E o \in {sync_friend_link_selected_inner(session, keys, metadata_only, Disk)} :
       /\ lock' = o.lock
       /\ config' = o.config
       /\ files' = o.files
       /\ session' = o.session
       /\ result' = o.result
    /\ UNCHANGED <<peer_lock, peer_config, peer_files, peer_up, provider_has, edits>>
    /\ UNCHANGED net_vars
    /\ UNCHANGED ext_vars

(* ----------------------- conflict resolution --------------------------- *)
Resolutions == {"keep_mine", "take_theirs", "skip_for_now"}

\* The pending conflicts walked in order under the resolutions res (one per
\* position): take_theirs writes the recorded value, skip_for_now keeps the
\* record pending.
\* A conflict without an item of its own gets the resolution of the request's
\* flags: take_all_theirs, else keep_all_mine, else skip_for_now.
NoItem == "unset"

resolution_for(item, take_all_theirs, keep_all_mine) ==
    IF item # NoItem THEN item
    ELSE IF take_all_theirs THEN "take_theirs"
    ELSE IF keep_all_mine THEN "keep_mine"
    ELSE "skip_for_now"

\* The requests of resolve_conflicts: one optional item per pending conflict,
\* in the order of the pending list, and the two flags.
AllResolutionArgs ==
    [items : UNION {[1..n -> Resolutions \cup {NoItem}] : n \in 0..2},
     take_all_theirs : BOOLEAN, keep_all_mine : BOOLEAN]

\* The flags are read only for a conflict without an item: a request with an
\* item for every conflict is taken with both flags off.
ResolutionArgs ==
    {res \in AllResolutionArgs :
        (\A i \in 1..Len(res.items) : res.items[i] # NoItem)
        => (~res.take_all_theirs /\ ~res.keep_all_mine)}

\* Faulty resolution loop: take_theirs drops the conflict without writing the
\* retained value.
RECURSIVE ResolveLoop_take_not_written(_, _, _, _)
ResolveLoop_take_not_written(acc, pending, res, i) ==
    IF i > Len(pending) THEN acc
    ELSE ResolveLoop_take_not_written(
             IF resolution_for(res.items[i], res.take_all_theirs, res.keep_all_mine) = "skip_for_now"
             THEN [acc EXCEPT !.keep_pending = Append(@, pending[i])]
             ELSE acc,
             pending, res, i + 1)

RECURSIVE ResolveLoop(_, _, _, _)
ResolveLoop(acc, pending, res, i) ==
    IF i > Len(pending) THEN acc
    ELSE LET conflict == pending[i]
             resolution == resolution_for(res.items[i], res.take_all_theirs, res.keep_all_mine)
             next ==
               IF resolution = "skip_for_now"
               THEN [acc EXCEPT !.keep_pending = Append(@, conflict)]
               ELSE IF resolution = "take_theirs"
                    THEN IF conflict.kind = "lock_entry"
                         THEN [acc EXCEPT !.lock[conflict.key] = conflict.theirs_value]
                         ELSE [acc EXCEPT !.config[conflict.key] = conflict.theirs_value]
               ELSE acc
         IN ResolveLoop(next, pending, res, i + 1)

resolve_written(s, d, acc) ==
    reconcile_internal([s EXCEPT !.pending_conflicts = acc.keep_pending], "manual",
                       [lock |-> acc.lock, config |-> acc.config, files |-> d.files])

resolve_friend_link_conflicts_inner(s, res, d) ==
    IF s.pending_conflicts = <<>>
    THEN reconcile_internal(s, "manual", d)
    ELSE resolve_written(s, d,
             ResolveLoop([lock |-> d.lock, config |-> d.config, keep_pending |-> <<>>],
                         s.pending_conflicts, res, 1))

\* What the call was asked to do: each pending conflict with the resolution the
\* request gives it.
resolved_by(pending, res) ==
    [i \in 1..Len(pending) |->
        [conflict |-> pending[i], explicit |-> res.items[i] # NoItem,
         resolution |-> resolution_for(res.items[i], res.take_all_theirs, res.keep_all_mine)]]

ResolveConflicts(res) ==
    /\ session.linked
    /\ Len(res.items) = Len(session.pending_conflicts)
    /\ \E o \in {resolve_friend_link_conflicts_inner(session, res, Disk)} :
       /\ lock' = o.lock
       /\ config' = o.config
       /\ files' = o.files
       /\ session' = o.session
       /\ result' = [o.result EXCEPT !.op = "resolve_conflicts",
                                     !.resolved = resolved_by(session.pending_conflicts, res)]
    /\ UNCHANGED <<peer_lock, peer_config, peer_files, peer_up, provider_has, edits>>
    /\ UNCHANGED net_vars
    /\ UNCHANGED ext_vars

(* ----------------------- the environment ------------------------------- *)
\* The user installs, updates or removes content of the local instance.
LocalEdit(k, v) ==
    /\ edits < MaxEdits
    /\ IF k \in LockKeys
       THEN /\ lock[k] # v
            /\ lock' = [lock EXCEPT ![k] = v]
            /\ files' = [files EXCEPT ![k] = v # Absent]
            /\ UNCHANGED config
       ELSE /\ config[k] # v
            /\ config' = [config EXCEPT ![k] = v]
            /\ UNCHANGED <<lock, files>>
    /\ edits' = edits + 1
    /\ result' = NoResult
    /\ UNCHANGED <<peer_lock, peer_config, peer_files, peer_up, provider_has, session>>
    /\ UNCHANGED net_vars
    /\ UNCHANGED ext_vars

\* A content file disappears from the local instance while its lock entry stays.
LocalLoseFile(k) ==
    /\ edits < MaxEdits
    /\ lock[k] # Absent /\ files[k]
    /\ files' = [files EXCEPT ![k] = FALSE]
    /\ edits' = edits + 1
    /\ result' = NoResult
    /\ UNCHANGED <<lock, config, peer_lock, peer_config, peer_files, peer_up, provider_has,
                   session>>
    /\ UNCHANGED net_vars
    /\ UNCHANGED ext_vars

\* A peer's user changes that peer's instance.
PeerEdit(p, k, v) ==
    /\ edits < MaxEdits
    /\ IF k \in LockKeys
       THEN /\ peer_lock[p][k] # v
            /\ peer_lock' = [peer_lock EXCEPT ![p][k] = v]
            /\ peer_files' = [peer_files EXCEPT ![p][k] = v # Absent]
            /\ UNCHANGED peer_config
       ELSE /\ peer_config[p][k] # v
            /\ peer_config' = [peer_config EXCEPT ![p][k] = v]
            /\ UNCHANGED <<peer_lock, peer_files>>
    /\ edits' = edits + 1
    /\ result' = NoResult
    /\ UNCHANGED <<lock, config, files, peer_up, provider_has, session>>
    /\ UNCHANGED net_vars
    /\ UNCHANGED ext_vars

\* A peer goes offline or comes back.
PeerToggle(p) ==
    /\ edits < MaxEdits
    /\ edits' = edits + 1
    /\ peer_up' = [peer_up EXCEPT ![p] = ~@]
    /\ result' = NoResult
    /\ UNCHANGED <<lock, config, files, peer_lock, peer_config, peer_files, provider_has,
                   session>>
    /\ UNCHANGED net_vars
    /\ UNCHANGED ext_vars

\* The content provider starts or stops serving downloads.
ProviderToggle ==
    /\ edits < MaxEdits
    /\ edits' = edits + 1
    /\ provider_has' = ~provider_has
    /\ result' = NoResult
    /\ UNCHANGED <<lock, config, files, peer_lock, peer_config, peer_files, peer_up,
                   session>>
    /\ UNCHANGED net_vars
    /\ UNCHANGED ext_vars

(* ----------------------- signed frames -------------------------------- *)
GroupId == "group_1"
Secret == "secret_1"
\* Who can have signed a frame, and for which group: a member for this
\* group, a member for another group, an outsider for this group.
Signers == {<<Secret, GroupId>>, <<Secret, "group_2">>, <<"secret_2", GroupId>>}
Nonces == {"n1", "n2", "n3"}
ClockStep == MAX_CLOCK_SKEW_MS
Times == {i * ClockStep : i \in 0..MaxClockSteps}
RequestTypes == {"hello", "state_request", "file_request"}
ResponseTypes == {"hello_ack", "state_response", "file_response", "error"}

\* The HMAC of the signable fields under a secret.
make_signature(secret, frame) ==
    <<secret, frame.group_id, frame.from_peer_id, frame.timestamp_ms, frame.nonce,
      frame.payload_type>>

Unsigned(group_id, from_peer_id, timestamp_ms, nonce, payload_type) ==
    [group_id |-> group_id, from_peer_id |-> from_peer_id, timestamp_ms |-> timestamp_ms,
     nonce |-> nonce, payload_type |-> payload_type, signature |-> <<>>]

sign_frame(secret, frame) == [frame EXCEPT !.signature = make_signature(secret, frame)]

\* Frames that can arrive: signed by a holder of some secret for some group
\* at some clock reading, with a nonce of the sender's choice.
FramesOf(types, senders) ==
    {sign_frame(sg[1], Unsigned(sg[2], p, ts, n, ty)) :
        sg \in Signers, p \in senders, ts \in {0, now}, n \in Nonces, ty \in types}

Abs(x) == IF x < 0 THEN -x ELSE x

verify_frame(secret, frame) ==
    IF Abs(now - frame.timestamp_ms) > MAX_CLOCK_SKEW_MS
    THEN "frame timestamp outside allowed skew window"
    ELSE IF make_signature(secret, frame) # frame.signature
    THEN "invalid frame signature"
    ELSE "ok"

\* The four checks of a received frame, as facts about the frame.
group_ok(frame) == frame.group_id = GroupId
signature_ok(frame) == make_signature(Secret, frame) = frame.signature
timestamp_ok(frame) == Abs(now - frame.timestamp_ms) <= MAX_CLOCK_SKEW_MS

NoNetLog ==
    [side |-> "none", nonce |-> "none", acted |-> FALSE,
     group_ok |-> FALSE, signature_ok |-> FALSE, timestamp_ok |-> FALSE,
     nonce_unseen |-> FALSE, since |-> -1, reply |-> "none", reply_signed |-> FALSE,
     session_unchanged |-> TRUE]

\* What the listener does with a frame up to the nonce cache: the error it
\* answers, or "ok" when the frame goes on to its branch.
incoming_check(frame) ==
    IF frame.group_id # GroupId THEN "group mismatch"
    ELSE IF verify_frame(Secret, frame) # "ok" THEN verify_frame(Secret, frame)
    ELSE IF frame.nonce \in seen_nonces THEN "replayed nonce"
    ELSE "ok"

\* The caches the set can become after inserting a nonce: above the capacity
\* one element is removed, whichever the set's iteration yields first.
seen_after_insert(seen, nonce) ==
    IF Cardinality(seen \cup {nonce}) > MaxSeenNonces
    THEN {(seen \cup {nonce}) \ {old} : old \in seen \cup {nonce}}
    ELSE {seen \cup {nonce}}

reply_type(payload_type) ==
    IF payload_type = "hello" THEN "hello_ack"
    ELSE IF payload_type = "state_request" THEN "state_response"
    ELSE IF payload_type = "file_request" THEN "file_response"
    ELSE "error"

\* handle_incoming_frame and the error frame of the listener loop.
ListenerReceive(frame) ==
    /\ session.linked
    /\ edits < MaxFrames
    /\ edits' = edits + 1
    /\ IF incoming_check(frame) # "ok"
       THEN /\ UNCHANGED <<seen_nonces, accepted_since, session>>
            /\ net_log' = [NoNetLog EXCEPT
                  !.side = "listener", !.nonce = frame.nonce, !.acted = FALSE,
                  !.group_ok = group_ok(frame), !.signature_ok = signature_ok(frame),
                  !.timestamp_ok = timestamp_ok(frame),
                  !.nonce_unseen = accepted_since[frame.nonce] = -1,
                  !.since = accepted_since[frame.nonce],
                  !.reply = "error", !.reply_signed = TRUE]
       ELSE /\ seen_nonces' \in seen_after_insert(seen_nonces, frame.nonce)
            /\ accepted_since' =
                 [n \in Nonces |->
                    IF n = frame.nonce THEN 0
                    ELSE IF accepted_since[n] = -1 THEN -1
                    ELSE IF accepted_since[n] >= MaxSeenNonces THEN accepted_since[n]
                    ELSE accepted_since[n] + 1]
            /\ session' =
                 IF frame.payload_type = "hello"
                    /\ ~hello_group_full(session, frame.from_peer_id)
                 THEN hello_session(session, frame.from_peer_id)
                 ELSE session
            /\ net_log' = [NoNetLog EXCEPT
                  !.side = "listener", !.nonce = frame.nonce,
                  !.acted = ~(frame.payload_type = "hello"
                              /\ hello_group_full(session, frame.from_peer_id)),
                  !.group_ok = group_ok(frame), !.signature_ok = signature_ok(frame),
                  !.timestamp_ok = timestamp_ok(frame),
                  !.nonce_unseen = accepted_since[frame.nonce] = -1,
                  !.since = accepted_since[frame.nonce],
                  !.reply = IF frame.payload_type = "hello"
                               /\ hello_group_full(session, frame.from_peer_id)
                            THEN "error" ELSE reply_type(frame.payload_type),
                  !.reply_signed = TRUE,
                  !.session_unchanged = (session' = session)]
    /\ UNCHANGED <<lock, config, files, peer_lock, peer_config, peer_files, peer_up,
                   provider_has, result, now, client_seen>>
    /\ UNCHANGED ext_vars

\* What send_hello, request_state and request_lock_entry_file do with the
\* frame that answers a request of the given type.
response_check(request_type, frame) ==
    IF verify_frame(Secret, frame) # "ok" THEN verify_frame(Secret, frame)
    ELSE IF frame.payload_type = "error" THEN "peer error"
    ELSE IF frame.payload_type # reply_type(request_type) THEN "unexpected payload type"
    ELSE "ok"

ClientReceive(request_type, frame) ==
    /\ session.linked
    /\ edits < MaxFrames
    /\ edits' = edits + 1
    /\ client_seen' = IF response_check(request_type, frame) = "ok"
                      THEN client_seen \cup {frame.nonce} ELSE client_seen
    /\ net_log' = [NoNetLog EXCEPT
          !.side = "client", !.nonce = frame.nonce,
          !.acted = response_check(request_type, frame) = "ok",
          !.group_ok = group_ok(frame), !.signature_ok = signature_ok(frame),
          !.timestamp_ok = timestamp_ok(frame),
          !.nonce_unseen = frame.nonce \notin client_seen]
    /\ UNCHANGED <<lock, config, files, peer_lock, peer_config, peer_files, peer_up,
                   provider_has, session, result, now, seen_nonces, accepted_since>>
    /\ UNCHANGED ext_vars

\* The local clock advances.
Tick ==
    /\ now < MaxClockSteps * ClockStep
    /\ now' = now + ClockStep
    /\ UNCHANGED <<lock, config, files, peer_lock, peer_config, peer_files, peer_up,
                   provider_has, session, result, edits, seen_nonces, accepted_since,
                   client_seen, net_log>>
    /\ UNCHANGED ext_vars

(* --------------------- the store file and the threads ------------------ *)
\* The store as the threads of one instance see it: the session record of
\* the instance, if it has one, with its peer list.
StoreDefault == [linked |-> FALSE, peers |-> <<>>]

\* The text of a store: an opening and a closing brace around the session.
to_string_pretty(store) ==
    <<"{">> \o (IF store.linked THEN <<"session">> \o store.peers ELSE <<>>) \o <<"}">>

\* Parsing fails on a text that is not a whole document.
from_str(raw) ==
    IF /\ Len(raw) >= 2
       /\ raw[1] = "{"
       /\ raw[Len(raw)] = "}"
       /\ \A i \in 2..(Len(raw) - 1) : raw[i] \notin {"{", "}", "nul"}
       /\ Len(raw) > 2 => raw[2] = "session"
       /\ \A i \in 3..(Len(raw) - 1) : raw[i] # "session"
    THEN [ok |-> TRUE,
          store |-> [linked |-> Len(raw) > 2,
                     peers |-> IF Len(raw) > 2 THEN SubSeq(raw, 3, Len(raw) - 1) ELSE <<>>]]
    ELSE [ok |-> FALSE, store |-> StoreDefault]

NoFile == [exists |-> FALSE, raw |-> <<>>]

read_store_at_path(file) ==
    IF ~file.exists THEN [ok |-> TRUE, store |-> StoreDefault] ELSE from_str(file.raw)

\* One write call of a writer at its own offset into the file.
write_at(raw, pos, token) ==
    [i \in 1..(IF Len(raw) > pos THEN Len(raw) ELSE pos) |->
        IF i = pos THEN token ELSE IF i <= Len(raw) THEN raw[i] ELSE "nul"]

\* fs::write in steps: sent = -1 opens the file and truncates it, then one
\* piece of the text goes out per step.
fs_write(file, raw, sent) ==
    IF sent = -1 THEN [exists |-> TRUE, raw |-> <<>>]
    ELSE [exists |-> TRUE, raw |-> write_at(file.raw, sent + 1, raw[sent + 1])]

\* The write of the text raw is complete after the step from sent.
fs_write_done(raw, sent) == sent + 1 = Len(raw)

remove_session(store) == [store EXCEPT !.linked = FALSE, !.peers = <<>>]

CommandIdle == [pc |-> "idle", store |-> StoreDefault, sent |-> -1, ret |-> "none"]

ListenerGone == [pc |-> "exited", bound |-> FALSE, from |-> NoPeer, store |-> StoreDefault, sent |-> -1]

NoHandle == [registered |-> FALSE, stop_rx |-> FALSE]

\* No preview built, and no input for one.
NoDrift == [built |-> FALSE]

\* No session is stored for the instance.
NoSettings == [exists |-> FALSE]

\* No lock entry has been hashed.
NoHashing == [done |-> FALSE]

\* The fetcher has not been given anything.
NoFetching == [given |-> FALSE]

\* No merge has been given anything.
NoOrdering == [given |-> FALSE]

\* No config file is open in an editor.
NoEditing == [given |-> FALSE]

\* No listener has been asked for.
NoServing == [given |-> FALSE]

LateIdle ==
    /\ editing = NoEditing
    /\ serving = NoServing

\* The parts modelled last are at rest.
MoreIdle ==
    /\ fetching = NoFetching
    /\ ordering = NoOrdering
    /\ LateIdle

\* No file path built yet.
NoTouch == [op |-> "none", accessed |-> FALSE, path |-> <<>>, gated |-> FALSE]

\* No thread, no store file and no path: the state the other specifications keep.
ExtIdle ==
    /\ store_file = NoFile
    /\ command = CommandIdle
    /\ listener = ListenerGone
    /\ listener_map = NoHandle
    /\ touched = NoTouch
    /\ drift = NoDrift
    /\ settings = NoSettings
    /\ hashing = NoHashing
    /\ MoreIdle

sync_vars == <<lock, config, files, peer_lock, peer_config, peer_files, peer_up, provider_has, session, result, edits>>

\* leave_session: read_store, then remove_session.
LeaveReadStore ==
    /\ command.pc = "idle"
    /\ \E r \in {read_store_at_path(store_file)} :
          command' =
             IF ~r.ok THEN [command EXCEPT !.pc = "returned", !.ret = "err"]
             ELSE IF r.store.linked
                  THEN [command EXCEPT !.pc = "write_store", !.sent = -1,
                                       !.store = remove_session(r.store)]
                  ELSE [command EXCEPT !.pc = "stop_listener", !.store = r.store]
    /\ UNCHANGED <<store_file, listener, listener_map>>
    /\ UNCHANGED <<sync_vars, net_vars, touched, drift, settings, hashing, more_vars>>

\* leave_session: write_store, one call of the write per step.
LeaveWriteStore ==
    /\ command.pc = "write_store"
    /\ store_file' = fs_write(store_file, to_string_pretty(command.store), command.sent)
    /\ command' =
          IF fs_write_done(to_string_pretty(command.store), command.sent)
          THEN [command EXCEPT !.pc = "stop_listener", !.sent = -1]
          ELSE [command EXCEPT !.sent = @ + 1]
    /\ UNCHANGED <<listener, listener_map>>
    /\ UNCHANGED <<sync_vars, net_vars, touched, drift, settings, hashing, more_vars>>

\* leave_session: the write fails with an I/O error and the command returns it.
LeaveWriteFails ==
    /\ command.pc = "write_store"
    /\ command' = [command EXCEPT !.pc = "returned", !.ret = "err", !.sent = -1]
    /\ UNCHANGED <<store_file, listener, listener_map>>
    /\ UNCHANGED <<sync_vars, net_vars, touched, drift, settings, hashing, more_vars>>

\* leave_session: stop_listener, then the return.
LeaveStopListener ==
    /\ command.pc = "stop_listener"
    /\ listener_map' = IF listener_map.registered
                       THEN [registered |-> FALSE, stop_rx |-> TRUE]
                       ELSE listener_map
    /\ command' = [command EXCEPT !.pc = "returned", !.ret = "ok"]
    /\ UNCHANGED <<store_file, listener>>
    /\ UNCHANGED <<sync_vars, net_vars, touched, drift, settings, hashing, more_vars>>

\* The listener thread at the top of its loop: a stop signal ends the thread
\* and drops the socket.
ListenerLoop ==
    /\ listener.pc = "loop"
    /\ IF listener_map.stop_rx
       THEN /\ listener' = [listener EXCEPT !.pc = "exited", !.bound = FALSE]
            /\ listener_map' = [listener_map EXCEPT !.stop_rx = FALSE]
       ELSE /\ listener' = [listener EXCEPT !.pc = "accept"]
            /\ UNCHANGED listener_map
    /\ UNCHANGED <<store_file, command>>
    /\ UNCHANGED <<sync_vars, net_vars, touched, drift, settings, hashing, more_vars>>

\* accept() returns a connection that brings a valid hello of peer p.
ListenerAccept(p) ==
    /\ listener.pc = "accept"
    /\ listener' = [listener EXCEPT !.pc = "read_store", !.from = p]
    /\ UNCHANGED <<store_file, command, listener_map>>
    /\ UNCHANGED <<sync_vars, net_vars, touched, drift, settings, hashing, more_vars>>

\* accept() has no connection: the thread sleeps and loops.
ListenerWouldBlock ==
    /\ listener.pc = "accept"
    /\ listener' = [listener EXCEPT !.pc = "loop"]
    /\ UNCHANGED <<store_file, command, listener_map>>
    /\ UNCHANGED <<sync_vars, net_vars, touched, drift, settings, hashing, more_vars>>

\* handle_incoming_frame: read_store_at_path and the hello branch up to the
\* write; an error is answered with an error frame.
ListenerReadStore ==
    /\ listener.pc = "read_store"
    /\ \E r \in {read_store_at_path(store_file)} :
          listener' =
             IF ~r.ok \/ ~r.store.linked \/ hello_group_full(r.store, listener.from)
             THEN [listener EXCEPT !.pc = "loop", !.from = NoPeer]
             ELSE [listener EXCEPT !.pc = "write_store", !.sent = -1,
                                   !.store = hello_session(r.store, listener.from)]
    /\ UNCHANGED <<store_file, command, listener_map>>
    /\ UNCHANGED <<sync_vars, net_vars, touched, drift, settings, hashing, more_vars>>

\* handle_incoming_frame: write_store_at_path, one call of the write per step,
\* then the hello_ack.
ListenerWriteStore ==
    /\ listener.pc = "write_store"
    /\ store_file' = fs_write(store_file, to_string_pretty(listener.store), listener.sent)
    /\ listener' =
          IF fs_write_done(to_string_pretty(listener.store), listener.sent)
          THEN [listener EXCEPT !.pc = "loop", !.sent = -1, !.from = NoPeer]
          ELSE [listener EXCEPT !.sent = @ + 1]
    /\ UNCHANGED <<command, listener_map>>
    /\ UNCHANGED <<sync_vars, net_vars, touched, drift, settings, hashing, more_vars>>

\* handle_incoming_frame: the write fails with an I/O error, answered with an
\* error frame.
ListenerWriteFails ==
    /\ listener.pc = "write_store"
    /\ listener' = [listener EXCEPT !.pc = "loop", !.sent = -1, !.from = NoPeer]
    /\ UNCHANGED <<store_file, command, listener_map>>
    /\ UNCHANGED <<sync_vars, net_vars, touched, drift, settings, hashing, more_vars>>

(* ------------------------------ file paths ----------------------------- *)
\* A path is the sequence of its characters; the names the engine itself
\* puts into a path (inst, mods, ...) count as one character each.
PathChars == {"a", ".", "/", "\\", " "}
MaxPathLen == 4
PathStrings == UNION {[1..n -> PathChars] : n \in 0..MaxPathLen}

RECURSIVE trim_start_matches(_, _)
trim_start_matches(s, c) ==
    IF s # <<>> /\ Head(s) = c THEN trim_start_matches(Tail(s), c) ELSE s

RECURSIVE trim_end(_)
trim_end(s) ==
    IF s # <<>> /\ s[Len(s)] = " " THEN trim_end(SubSeq(s, 1, Len(s) - 1)) ELSE s

str_trim(s) == trim_end(trim_start_matches(s, " "))

replace_backslash(s) == [i \in 1..Len(s) |-> IF s[i] = "\\" THEN "/" ELSE s[i]]

str_contains_dotdot(s) == \E i \in 1..(Len(s) - 1) : s[i] = "." /\ s[i + 1] = "."

safe_rel_path_normalized(raw) == trim_start_matches(str_trim(replace_backslash(raw)), "/")

safe_rel_path(raw) ==
    IF safe_rel_path_normalized(raw) = <<>> THEN [ok |-> FALSE, path |-> <<>>]
    ELSE IF str_contains_dotdot(safe_rel_path_normalized(raw)) THEN [ok |-> FALSE, path |-> <<>>]
    ELSE [ok |-> TRUE, path |-> safe_rel_path_normalized(raw)]

\* PathBuf::join: an absolute path replaces the base.
path_join(base, rel) ==
    IF rel # <<>> /\ Head(rel) = "/" THEN rel
    ELSE IF rel = <<>> THEN base
    ELSE base \o <<"/">> \o rel

\* The components of a path: what stands between the separators, without the
\* empty ones and the single dots.
RECURSIVE components_from(_, _)
components_from(s, current) ==
    IF s = <<>>
    THEN (IF current \in {<<>>, <<".">>} THEN <<>> ELSE <<current>>)
    ELSE IF Head(s) = "/"
         THEN (IF current \in {<<>>, <<".">>} THEN <<>> ELSE <<current>>)
              \o components_from(Tail(s), <<>>)
         ELSE components_from(Tail(s), Append(current, Head(s)))

components(path) == components_from(path, <<>>)

ParentDir == <<".", ".">>

\* The path has a `..` component.
HasParentComponent(path) == \E i \in 1..Len(components(path)) : components(path)[i] = ParentDir

\* Following the components from depth levels below the instance directory
\* never climbs above it.
RECURSIVE StaysBelow(_, _)
StaysBelow(comps, depth) ==
    IF comps = <<>> THEN TRUE
    ELSE IF Head(comps) = ParentDir
         THEN depth > 0 /\ StaysBelow(Tail(comps), depth - 1)
         ELSE StaysBelow(Tail(comps), depth + 1)

InstanceDir == <<"/", "inst">>

\* The path is the instance directory or lies below it.
InsideInstance(path) ==
    /\ SubSeq(path, 1, 2) = InstanceDir
    /\ Len(path) > 2 => path[3] = "/"
    /\ StaysBelow(Tail(components(path)), 0)

ContentTypes == {"mods", "mod", "resourcepacks", "texturepacks", " TexturePacks ", "shaderpacks", "shaders", "datapacks", "datapack", " Mods ", "plugins"}

\* trim().to_lowercase() on the content types that occur.
trim_lowercase(content_type) ==
    IF content_type = " Mods " THEN "mods"
    ELSE IF content_type = " TexturePacks " THEN "texturepacks"
    ELSE content_type

normalized_content_type(input) ==
    IF trim_lowercase(input) \in {"mods", "mod"} THEN "mods"
    ELSE IF trim_lowercase(input) \in {"resourcepacks", "resourcepack", "texturepacks", "texturepack"} THEN "resourcepacks"
    ELSE IF trim_lowercase(input) \in {"shaderpacks", "shaderpack", "shader", "shaders"} THEN "shaderpacks"
    ELSE IF trim_lowercase(input) \in {"datapacks", "datapack"} THEN "datapacks"
    ELSE "mods"

\* The target paths of an enabled lock entry; a datapack goes into its world.
lock_entry_paths(entry) ==
    IF normalized_content_type(entry.content_type) = "datapacks"
    THEN IF str_trim(entry.world) = <<>> THEN {}
         ELSE {path_join(path_join(path_join(path_join(InstanceDir, <<"saves">>), str_trim(entry.world)), <<"datapacks">>), entry.filename)}
    ELSE {path_join(path_join(InstanceDir, <<normalized_content_type(entry.content_type)>>), entry.filename)}

resolve_instance_file_path(rel_path) ==
    IF safe_rel_path(rel_path).ok
    THEN [ok |-> TRUE, path |-> path_join(InstanceDir, safe_rel_path(rel_path).path)]
    ELSE [ok |-> FALSE, path |-> <<>>]

\* What a peer's state can bring as the file name and world of a lock entry.
PeerEntries == [content_type : {"mods", "texturepacks", "datapack"}, filename : PathStrings, world : {<<"a">>, <<".", ".">>, <<" ">>}]

\* The operation that built the path is over.
OperationEnds ==
    /\ touched # NoTouch
    /\ touched' = NoTouch
    /\ UNCHANGED <<sync_vars, net_vars, thread_vars, drift, settings, hashing, more_vars>>

\* apply_config_file with the path of a peer's config file.
WriteInstanceConfigFile(rel_path) ==
    /\ touched = NoTouch
    /\ touched' = [op |-> "write_config", accessed |-> resolve_instance_file_path(rel_path).ok,
                   path |-> resolve_instance_file_path(rel_path).path, gated |-> TRUE]
    /\ UNCHANGED <<sync_vars, net_vars, thread_vars, drift, settings, hashing, more_vars>>

\* The fetcher writing the bytes of a merged lock entry.
WriteLockEntryBytes(entry) ==
    /\ touched = NoTouch
    /\ lock_entry_paths(entry) # {}
    /\ \E path \in lock_entry_paths(entry) :
          touched' = [op |-> "write_content", accessed |-> TRUE, path |-> path, gated |-> FALSE]
    /\ UNCHANGED <<sync_vars, net_vars, thread_vars, drift, settings, hashing, more_vars>>

\* sync_selected removing the files of a lock entry it had applied earlier.
RemoveLockEntryBinaries(entry) ==
    /\ touched = NoTouch
    /\ \E path \in lock_entry_paths(entry) :
          touched' = [op |-> "remove_content", accessed |-> TRUE, path |-> path, gated |-> FALSE]
    /\ UNCHANGED <<sync_vars, net_vars, thread_vars, drift, settings, hashing, more_vars>>

\* sync_selected removing a config file by the key of a drift item.
RemoveConfigFileByKey(rel) ==
    /\ touched = NoTouch
    /\ touched' = [op |-> "remove_config", accessed |-> TRUE, path |-> path_join(InstanceDir, rel), gated |-> FALSE]
    /\ UNCHANGED <<sync_vars, net_vars, thread_vars, drift, settings, hashing, more_vars>>

(* -------------------- drift preview over content types ------------------ *)
\* The lock entries of a state, one per key: the local ones by version (0
\* absent), a peer's with the content type as the peer writes it.
EntryTypes == {"mods", "texturepacks", "datapack"}

NoEntry == [content_type |-> "none", version |-> Absent]

Entry(content_type, version) == [content_type |-> content_type, version |-> version]

lock_key_for(entry) == <<"lock", "modrinth", trim_lowercase(entry.content_type), "e1">>

\* How a peer may write the content type of the entry of a key.
Spellings(t) == IF t = "texturepacks" THEN {"texturepacks", " TexturePacks "} ELSE {t}

LocalLockStates == [EntryTypes -> {Absent, 1, 2}]

RemoteLockStates == {st \in [EntryTypes -> {NoEntry} \cup [content_type : ContentTypes, version : {1, 2}]] : \A t \in EntryTypes : st[t] # NoEntry => st[t].content_type \in Spellings(t)}

\* The states the second peer of a preview answers with.
SecondLockStates == {st \in RemoteLockStates : st["mods"] = NoEntry}

\* The entries of a local state, written the plain way.
local_entries(local) == {Entry(t, local[t]) : t \in {x \in EntryTypes : local[x] # Absent}}

remote_entries(remote) == {remote[t] : t \in {x \in EntryTypes : remote[x] # NoEntry}}

\* lock_entry_map: the entry under a key, if the entries have one.
HasKey(entries, key) == \E e \in entries : lock_key_for(e) = key

EntryAt(entries, key) == CHOOSE e \in entries : lock_key_for(e) = key

SyncToggles == [sync_mods : BOOLEAN, sync_resourcepacks : BOOLEAN, sync_shaderpacks : {TRUE}, sync_datapacks : BOOLEAN]

\* Faulty toggle lookup: the content type is matched as written, without its
\* other names.
content_type_sync_enabled_no_alias(toggles, content_type) ==
    IF content_type = "resourcepacks" THEN toggles.sync_resourcepacks
    ELSE IF content_type = "shaderpacks" THEN toggles.sync_shaderpacks
    ELSE IF content_type = "datapacks" THEN toggles.sync_datapacks
    ELSE toggles.sync_mods

normalized_content_type_for_sync(input) == normalized_content_type(input)

\* lock_entry_sync_enabled on an entry's content type.
content_type_sync_enabled(toggles, content_type) ==
    IF normalized_content_type_for_sync(content_type) = "mods" THEN toggles.sync_mods
    ELSE IF normalized_content_type_for_sync(content_type) = "resourcepacks" THEN toggles.sync_resourcepacks
    ELSE IF normalized_content_type_for_sync(content_type) = "shaderpacks" THEN toggles.sync_shaderpacks
    ELSE toggles.sync_datapacks

LockItem(key, change, peer_id) == [key |-> key, kind |-> "lock_entry", change |-> change, peer_id |-> peer_id]

\* The lock-entry items of one peer: added and changed from the peer's
\* entries, removed from the local ones when the peer is the only one.
peer_lock_items(toggles, local, peer, single) ==
    {LockItem(lock_key_for(e), IF HasKey(local, lock_key_for(e)) THEN "changed" ELSE "added", peer.peer_id) :
        e \in {r \in peer.entries :
                 /\ content_type_sync_enabled(toggles, r.content_type)
                 /\ HasKey(local, lock_key_for(r))
                     => lock_entry_hash(EntryAt(local, lock_key_for(r)).version) # lock_entry_hash(r.version)}}
    \cup
    {LockItem(lock_key_for(e), "removed", peer.peer_id) :
        e \in {l \in local :
                 /\ single
                 /\ content_type_sync_enabled(toggles, l.content_type)
                 /\ ~HasKey(peer.entries, lock_key_for(l))}}

\* The lock-entry items of build_friend_link_drift_preview.
lock_drift_items(toggles, local, peer_states) ==
    UNION {peer_lock_items(toggles, local, peer_states[i], Len(peer_states) = 1) : i \in 1..Len(peer_states)}

\* A preview with the one peer that answered.
PreviewOnePeer ==
    /\ ~drift.built
    /\ drift' = [drift EXCEPT
          !.built = TRUE,
          !.peer_states = <<[peer_id |-> "A", entries |-> remote_entries(drift.remote)]>>,
          !.items = lock_drift_items(drift.toggles, local_entries(drift.local),
                                     <<[peer_id |-> "A", entries |-> remote_entries(drift.remote)]>>)]
    /\ UNCHANGED <<sync_vars, net_vars, thread_vars, touched, settings, hashing, more_vars>>

\* A preview with two peers that answered, the second with state second.
PreviewTwoPeers(second) ==
    /\ ~drift.built
    /\ drift' = [drift EXCEPT
          !.built = TRUE,
          !.peer_states = <<[peer_id |-> "A", entries |-> remote_entries(drift.remote)],
                            [peer_id |-> "B", entries |-> remote_entries(second)]>>,
          !.items = lock_drift_items(drift.toggles, local_entries(drift.local),
                                     <<[peer_id |-> "A", entries |-> remote_entries(drift.remote)],
                                       [peer_id |-> "B", entries |-> remote_entries(second)]>>)]
    /\ UNCHANGED <<sync_vars, net_vars, thread_vars, touched, settings, hashing, more_vars>>

(* ----------------------- specification --------------------------------- *)
Init ==
    /\ lock = [k \in LockKeys |-> Absent]
    /\ config = [k \in ConfigKeys |-> Absent]
    /\ files = [k \in LockKeys |-> FALSE]
    /\ peer_lock = [p \in Peers |-> [k \in LockKeys |-> Absent]]
    /\ peer_config = [p \in Peers |-> [k \in ConfigKeys |-> Absent]]
    /\ peer_files = [p \in Peers |-> [k \in LockKeys |-> FALSE]]
    /\ peer_up = [p \in Peers |-> TRUE]
    /\ provider_has = FALSE
    /\ session = Unlinked
    /\ result = NoResult
    /\ edits = 0
    /\ now = 0
    /\ seen_nonces = {}
    /\ accepted_since = [n \in Nonces |-> -1]
    /\ client_seen = {}
    /\ net_log = NoNetLog
    /\ ExtIdle

FailPoints == {"none", "binary_write", "store_write"}

Next ==
    \/ CreateSession
    \/ \E host \in Peers : \E others \in {<<>>} \cup {<<q>> : q \in Peers \ {host}} :
          JoinSession(host, others)
    \/ LeaveSession
    \/ \E p \in Peers : Hello(p)
    \/ GetStatus
    \/ \E trusted_input \in TrustedInputs : \E sync_mods \in {"none", "true", "false"} :
          SetGuardrails(trusted_input, sync_mods)
    \/ PreviewDrift
    \/ \E keys \in SUBSET Keys : \E metadata_only \in BOOLEAN : SyncSelected(keys, metadata_only)
    \/ \E mode \in Modes : \E fail_at \in FailPoints : Reconcile(mode, fail_at)
    \/ \E res \in ResolutionArgs : ResolveConflicts(res)
    \/ \E k \in Keys : \E v \in Values : LocalEdit(k, v)
    \/ \E k \in LockKeys : LocalLoseFile(k)
    \/ \E p \in Peers : \E k \in Keys : \E v \in Values : PeerEdit(p, k, v)
    \/ \E p \in Peers : PeerToggle(p)
    \/ ProviderToggle

Spec == Init /\ [][Next]_vars


\* The instance right after join_session at host A, whose ack listed peer B.
JoinedHost == "A"

JoinedOthers == <<"B">>

JoinedInit ==
    /\ lock = [k \in LockKeys |-> Absent]
    /\ config = [k \in ConfigKeys |-> Absent]
    /\ files = [k \in LockKeys |-> FALSE]
    /\ peer_lock = [p \in Peers |-> [k \in LockKeys |-> Absent]]
    /\ peer_config = [p \in Peers |-> [k \in ConfigKeys |-> Absent]]
    /\ peer_files = [p \in Peers |-> [k \in LockKeys |-> FALSE]]
    /\ peer_up = [p \in Peers |-> TRUE]
    /\ provider_has = FALSE
    /\ session = normalize_session_friend_link_settings(
                     [Unlinked EXCEPT !.linked = TRUE,
                                      !.bootstrap_host_peer_id = JoinedHost,
                                      !.peers = upsert_peers(<<JoinedHost>>, JoinedOthers)])
    /\ result = NoResult
    /\ edits = 0
    /\ now = 0
    /\ seen_nonces = {}
    /\ accepted_since = [n \in Nonces |-> -1]
    /\ client_seen = {}
    /\ net_log = NoNetLog
    /\ ExtIdle

\* The joiner merging with its group: runs of reconcile, conflict
\* resolutions, guardrail changes, and the edits of the local user, of the
\* peers' users and of the environment.
JoinedNext ==
    \/ \E mode \in Modes : \E fail_at \in FailPoints : Reconcile(mode, fail_at)
    \/ \E res \in ResolutionArgs : ResolveConflicts(res)
    \/ \E trusted_input \in TrustedInputs : \E sync_mods \in {"none", "true", "false"} :
          SetGuardrails(trusted_input, sync_mods)
    \/ \E k \in Keys : \E v \in Values : LocalEdit(k, v)
    \/ \E k \in LockKeys : LocalLoseFile(k)
    \/ \E p \in Peers : \E k \in Keys : \E v \in Values : PeerEdit(p, k, v)
    \/ \E p \in Peers : PeerToggle(p)
    \/ ProviderToggle

JoinedSpec == JoinedInit /\ [][JoinedNext]_vars

\* A group that fills up: nine peer ids that can say hello, and a listener
\* that has already accepted the hello of the first few of them.
GroupPeerSeq == <<"A", "B", "C", "D", "E", "F", "G", "H", "I">>

GroupPeers == {GroupPeerSeq[i] : i \in 1..Len(GroupPeerSeq)}

MinGroupStart == 5

\* The peer lists a host's hello_ack can carry besides the host itself.
JoinAcks == {SubSeq(GroupPeerSeq, 2, n) : n \in 1..Len(GroupPeerSeq)}

GroupInit ==
    /\ lock = [k \in LockKeys |-> Absent]
    /\ config = [k \in ConfigKeys |-> Absent]
    /\ files = [k \in LockKeys |-> FALSE]
    /\ peer_lock = [p \in Peers |-> [k \in LockKeys |-> Absent]]
    /\ peer_config = [p \in Peers |-> [k \in ConfigKeys |-> Absent]]
    /\ peer_files = [p \in Peers |-> [k \in LockKeys |-> FALSE]]
    /\ peer_up = [p \in Peers |-> TRUE]
    /\ provider_has = FALSE
    /\ \E n \in MinGroupStart..(PEER_LIMIT - 1) :
          session = [Unlinked EXCEPT !.linked = TRUE,
                                     !.peers = upsert_peers(<<>>, SubSeq(GroupPeerSeq, 1, n))]
    /\ result = NoResult
    /\ edits = 0
    /\ now = 0
    /\ seen_nonces = {}
    /\ accepted_since = [n \in Nonces |-> -1]
    /\ client_seen = {}
    /\ net_log = NoNetLog
    /\ ExtIdle

GroupNext ==
    \/ \E frame \in FramesOf({"hello"}, GroupPeers) : ListenerReceive(frame)
    \/ \E others \in JoinAcks : JoinSession(JoinedHost, others)

GroupSpec == GroupInit /\ [][GroupNext]_vars

\* A linked instance with its listener running, and the commands and frames
\* that reach it: leave_session on the command thread, hellos on the
\* listener thread, every store access and every write call a step.
ThreadInit ==
    /\ lock = [k \in LockKeys |-> Absent]
    /\ config = [k \in ConfigKeys |-> Absent]
    /\ files = [k \in LockKeys |-> FALSE]
    /\ peer_lock = [p \in Peers |-> [k \in LockKeys |-> Absent]]
    /\ peer_config = [p \in Peers |-> [k \in ConfigKeys |-> Absent]]
    /\ peer_files = [p \in Peers |-> [k \in LockKeys |-> FALSE]]
    /\ peer_up = [p \in Peers |-> TRUE]
    /\ provider_has = FALSE
    /\ session = [Unlinked EXCEPT !.linked = TRUE]
    /\ result = NoResult
    /\ edits = 0
    /\ now = 0
    /\ seen_nonces = {}
    /\ accepted_since = [n \in Nonces |-> -1]
    /\ client_seen = {}
    /\ net_log = NoNetLog
    /\ store_file = [exists |-> TRUE, raw |-> to_string_pretty([linked |-> TRUE, peers |-> <<>>])]
    /\ command = CommandIdle
    /\ listener = [ListenerGone EXCEPT !.pc = "loop", !.bound = TRUE]
    /\ listener_map = [registered |-> TRUE, stop_rx |-> FALSE]
    /\ touched = NoTouch
    /\ drift = NoDrift
    /\ settings = NoSettings
    /\ hashing = NoHashing
    /\ MoreIdle

ThreadNext ==
    \/ LeaveReadStore
    \/ LeaveWriteStore
    \/ LeaveWriteFails
    \/ LeaveStopListener
    \/ ListenerLoop
    \/ \E p \in Peers : ListenerAccept(p)
    \/ ListenerWouldBlock
    \/ ListenerReadStore
    \/ ListenerWriteStore
    \/ ListenerWriteFails

ThreadSpec == ThreadInit /\ [][ThreadNext]_vars

\* The engine building file paths from what peers and callers supply.
PathInit ==
    /\ lock = [k \in LockKeys |-> Absent]
    /\ config = [k \in ConfigKeys |-> Absent]
    /\ files = [k \in LockKeys |-> FALSE]
    /\ peer_lock = [p \in Peers |-> [k \in LockKeys |-> Absent]]
    /\ peer_config = [p \in Peers |-> [k \in ConfigKeys |-> Absent]]
    /\ peer_files = [p \in Peers |-> [k \in LockKeys |-> FALSE]]
    /\ peer_up = [p \in Peers |-> TRUE]
    /\ provider_has = FALSE
    /\ session = [Unlinked EXCEPT !.linked = TRUE]
    /\ result = NoResult
    /\ edits = 0
    /\ now = 0
    /\ seen_nonces = {}
    /\ accepted_since = [n \in Nonces |-> -1]
    /\ client_seen = {}
    /\ net_log = NoNetLog
    /\ ExtIdle

PathNext ==
    \/ OperationEnds
    \/ \E rel_path \in PathStrings : WriteInstanceConfigFile(rel_path)
    \/ \E entry \in PeerEntries : WriteLockEntryBytes(entry)
    \/ \E entry \in PeerEntries : RemoveLockEntryBinaries(entry)
    \/ \E rel \in {r \in PathStrings : safe_rel_path(r).ok /\ safe_rel_path(r).path = r} : RemoveConfigFileByKey(rel)

PathSpec == PathInit /\ [][PathNext]_vars

\* Drift previews over every toggle setting, local state and peer state.
DriftInit ==
    /\ lock = [k \in LockKeys |-> Absent]
    /\ config = [k \in ConfigKeys |-> Absent]
    /\ files = [k \in LockKeys |-> FALSE]
    /\ peer_lock = [p \in Peers |-> [k \in LockKeys |-> Absent]]
    /\ peer_config = [p \in Peers |-> [k \in ConfigKeys |-> Absent]]
    /\ peer_files = [p \in Peers |-> [k \in LockKeys |-> FALSE]]
    /\ peer_up = [p \in Peers |-> TRUE]
    /\ provider_has = FALSE
    /\ session = [Unlinked EXCEPT !.linked = TRUE]
    /\ result = NoResult
    /\ edits = 0
    /\ now = 0
    /\ seen_nonces = {}
    /\ accepted_since = [n \in Nonces |-> -1]
    /\ client_seen = {}
    /\ net_log = NoNetLog
    /\ store_file = NoFile
    /\ command = CommandIdle
    /\ listener = ListenerGone
    /\ listener_map = NoHandle
    /\ touched = NoTouch
    /\ \E toggles \in SyncToggles : \E local \in LocalLockStates : \E remote \in RemoteLockStates :
          drift = [built |-> FALSE, toggles |-> toggles, local |-> local, remote |-> remote,
                   peer_states |-> <<>>, items |-> {}]
    /\ settings = NoSettings
    /\ hashing = NoHashing
    /\ MoreIdle

DriftNext ==
    \/ PreviewOnePeer
    \/ \E second \in SecondLockStates : PreviewTwoPeers(second)

DriftSpec == DriftInit /\ [][DriftNext]_vars

\* The listener and the client of a linked instance, frames arriving from
\* the network.
NetInit ==
    /\ lock = [k \in LockKeys |-> Absent]
    /\ config = [k \in ConfigKeys |-> Absent]
    /\ files = [k \in LockKeys |-> FALSE]
    /\ peer_lock = [p \in Peers |-> [k \in LockKeys |-> Absent]]
    /\ peer_config = [p \in Peers |-> [k \in ConfigKeys |-> Absent]]
    /\ peer_files = [p \in Peers |-> [k \in LockKeys |-> FALSE]]
    /\ peer_up = [p \in Peers |-> TRUE]
    /\ provider_has = FALSE
    /\ session = [Unlinked EXCEPT !.linked = TRUE]
    /\ result = NoResult
    /\ edits = 0
    /\ now = 0
    /\ seen_nonces = {}
    /\ accepted_since = [n \in Nonces |-> -1]
    /\ client_seen = {}
    /\ net_log = NoNetLog
    /\ ExtIdle

NetNext ==
    \/ \E frame \in FramesOf(RequestTypes, Peers) : ListenerReceive(frame)
    \/ \E request_type \in RequestTypes : \E frame \in FramesOf(ResponseTypes, {"A"}) :
          ClientReceive(request_type, frame)
    \/ Tick

NetSpec == NetInit /\ [][NetNext]_vars

(* ----------------------- properties ------------------------------------ *)
LocalValue(l, c, k) == IF k \in LockKeys THEN l[k] ELSE c[k]

PeerValue(p, k) == IF k \in LockKeys THEN peer_lock[p][k] ELSE peer_config[p][k]

\* The baseline a run of session s merges against.
BaselineOf(s) ==
    IF s.last_good_snapshot.present THEN lock_manifest_map(s.last_good_snapshot) ELSE <<>>

\* The local value of k exists and is not the baseline's.
LocallyDiverged(s, l, c, k) ==
    /\ LocalValue(l, c, k) # Absent
    /\ \/ k \notin DOMAIN BaselineOf(s)
       \/ BaselineOf(s)[k] # EntryHash(k, LocalValue(l, c, k))

\* The trusted set a run of session s works with.
TrustedIn(s) == IdSet(normalize_session_friend_link_settings(s).trusted_peer_ids)

\* The step is a run of reconcile that returned a result.
ReconcileReturned == result'.op = "reconcile" /\ result'.status # "aborted"

HasAction(r, message) == \E i \in 1..Len(r.actions) : r.actions[i].message = message

\* C1: a reconcile replaces a locally diverged value of a key (present, and
\* different from the last-good baseline or unknown to it) only by the value
\* of a peer that is the bootstrap host or the only peer, and only while
\* there is no last-good snapshot; otherwise the value stays as it was.
C1_DivergedLocalKept ==
    [][result'.op = "reconcile" =>
        \A k \in Keys :
            LocallyDiverged(session, lock, config, k) =>
                \/ LocalValue(lock', config', k) = LocalValue(lock, config, k)
                \/ /\ ~session.last_good_snapshot.present
                   /\ \E p \in PeerIds(session) :
                         /\ session.bootstrap_host_peer_id = p \/ Len(session.peers) = 1
                         /\ PeerValue(p, k) = LocalValue(lock', config', k)]_vars

\* A run seeded a diverged key from its bootstrap peer.
C1_Witness ==
    /\ result.op = "reconcile"
    /\ HasAction(result, "Applied initial baseline")

\* C2: with an answering peer outside the trusted set whose state hash is not
\* the local one, a prelaunch reconcile without conflicts, binary failures
\* and offline peers returns blocked_untrusted with a blocked_reason, and
\* nothing of that peer is written: no action names it, and every key that
\* changed took the value of a trusted peer.
C2_UntrustedBlocksPrelaunch ==
    [][ReconcileReturned /\ result'.mode = "prelaunch" =>
        \A p \in PeerIds(session) :
            ( /\ peer_up[p]
              /\ p \notin TrustedIn(session)
              /\ request_state(p).state.state_hash
                    # collect_sync_state(lock, config).state_hash
              /\ result'.conflicts = <<>>
              /\ result'.binary_sync_failures = 0
              /\ result'.offline_peers = 0 )
            => /\ result'.status = "blocked_untrusted"
               /\ result'.blocked_reason # "none"
               /\ \A i \in 1..Len(result'.actions) : result'.actions[i].peer_id # p
               /\ \A k \in Keys :
                     LocalValue(lock', config', k) # LocalValue(lock, config, k) =>
                        \E q \in TrustedIn(session) :
                            PeerValue(q, k) = LocalValue(lock', config', k)]_vars

\* A prelaunch run was blocked by an untrusted peer's changes.
C2_Witness ==
    /\ result.op = "reconcile"
    /\ result.mode = "prelaunch"
    /\ result.status = "blocked_untrusted"
    /\ result.blocked_reason # "none"
    /\ result.skipped_review_only > 0

\* C3: a validly signed frame for this group whose nonce the listener has
\* accepted before, with fewer accepted frames since than the cache holds,
\* is answered with a signed error frame and leaves the session unchanged.
C3_ReplayWithinWindowRejected ==
    ( /\ net_log.side = "listener"
      /\ net_log.group_ok /\ net_log.signature_ok /\ net_log.timestamp_ok
      /\ net_log.since >= 0
      /\ net_log.since < MaxSeenNonces )
    => /\ ~net_log.acted
       /\ net_log.reply = "error"
       /\ net_log.reply_signed
       /\ net_log.session_unchanged

\* C4: a frame received by the listener or by the client is acted upon only
\* if its group id, its signature and its timestamp are right and its nonce
\* has not been seen before.
C4_ActedOnlyAfterFourChecks ==
    net_log.acted =>
        /\ net_log.group_ok
        /\ net_log.signature_ok
        /\ net_log.timestamp_ok
        /\ net_log.nonce_unseen

\* C5: a reconcile returns synced only if the run recorded no conflict, the
\* fetcher reported no failure, every peer of the session answered and no
\* untrusted peer showed a state hash other than the local one; a run that
\* recorded a conflict returns conflicted.
C5_SyncedOnlyWhenClean ==
    [][ReconcileReturned =>
        /\ result'.status = "synced" =>
              /\ result'.conflicts = <<>>
              /\ result'.binary_sync_failures = 0
              /\ \A p \in PeerIds(session) : peer_up[p]
              /\ \A p \in PeerIds(session) \ TrustedIn(session) :
                    request_state(p).state.state_hash
                        = collect_sync_state(lock, config).state_hash
        /\ result'.conflicts # <<>> => result'.status = "conflicted"]_vars

\* A run over two peers wrote something and returned synced.
C5_Witness ==
    /\ result.op = "reconcile"
    /\ result.status = "synced"
    /\ Len(session.peers) = 2
    /\ result.actions # <<>>

\* A sync-enabled lock entry of a type the fetcher serves has no content file.
MissingEnabledFile(s, l, fl) ==
    \E k \in LockKeys :
        l[k] # Absent /\ supports_binary_sync(k) /\ lock_entry_sync_enabled(s, k) /\ ~fl[k]

SnapshotStoredBySync ==
    \/ result'.op \in {"reconcile", "resolve_conflicts"} /\ result'.status = "synced"
    \/ /\ result'.op = "sync_selected"
       /\ result'.status = "synced"
       /\ result'.remaining_changes = 0

\* C7 as stated: the last-good snapshot changes only in a reconcile that
\* returns synced or in a sync_selected that returns synced with no drift
\* item left out.
C7_Original ==
    [][session'.last_good_snapshot # session.last_good_snapshot
        => SnapshotStoredBySync]_vars

\* C7: the last-good snapshot changes only in a reconcile that returns
\* synced, in a sync_selected that returns synced with no drift item left
\* out, or when the session record itself is dropped or replaced: by
\* leave_session or by join_session.
C7_SnapshotChangesOnlyOnSyncedLeaveJoin ==
    [][session'.last_good_snapshot # session.last_good_snapshot
        => \/ SnapshotStoredBySync
           \/ LeaveSession
           \/ \E host \in Peers : \E others \in {<<>>} \cup {<<q>> : q \in Peers \ {host}} :
                 JoinSession(host, others)]_vars

\* A sync_selected that covered every drift item stored the snapshot.
C7_Witness ==
    /\ result.op = "sync_selected"
    /\ result.status = "synced"
    /\ result.remaining_changes = 0
    /\ result.actions # <<>>
    /\ session.last_good_snapshot.present
    /\ session.last_good_snapshot.state_hash = result.local_state_hash

\* C8: when a reconcile returns synced, the persisted snapshot's state_hash
\* is the result's local_state_hash, which is the hash of the instance as
\* the run left it, and the snapshot's manifest is that state's manifest.
C8_SnapshotIsStateAfterRun ==
    [][ReconcileReturned /\ result'.status = "synced" =>
        /\ session'.last_good_snapshot.present
        /\ session'.last_good_snapshot.state_hash = result'.local_state_hash
        /\ result'.local_state_hash = collect_sync_state(lock', config').state_hash
        /\ session'.last_good_snapshot.manifest = state_manifest(lock', config')]_vars

\* A synced run that changed the instance stored a non-empty snapshot.
C8_Witness ==
    /\ result.op = "reconcile"
    /\ result.status = "synced"
    /\ result.actions # <<>>
    /\ session.last_good_snapshot.present
    /\ session.last_good_snapshot.manifest # {}

ConflictKeys(r) == {r.conflicts[i].key : i \in 1..Len(r.conflicts)}

\* C9: a reconcile that directly follows a reconcile of the same mode, with
\* nothing changed in between, applies no action, writes nothing, and
\* returns the same status and conflicted keys with the same snapshot.
C9_SecondRunIdempotent ==
    [][ ( /\ result.op = "reconcile" /\ result.status # "aborted"
          /\ ReconcileReturned
          /\ result'.mode = result.mode )
        => /\ result'.actions = <<>>
           /\ lock' = lock /\ config' = config /\ files' = files
           /\ result'.status = result.status
           /\ ConflictKeys(result') = ConflictKeys(result)
           /\ session'.last_good_snapshot = session.last_good_snapshot]_vars

\* The step is a returned reconcile of a joiner that has its bootstrap host
\* recorded, no snapshot yet, and the host answering.
JoinerFirstRun(host) ==
    /\ ReconcileReturned
    /\ session.bootstrap_host_peer_id = host
    /\ ~session.last_good_snapshot.present
    /\ peer_up[host]

\* Every entry and file of the host that is synced is now the local one.
AdoptedFrom(host) ==
    \A k \in Keys :
        (PeerValue(host, k) # Absent /\ (k \in LockKeys => lock_entry_sync_enabled(session, k)))
        => LocalValue(lock', config', k) = PeerValue(host, k)

\* The run ended as a first sync does.
FirstSyncDone ==
    /\ result'.status = "synced"
    /\ session'.last_good_snapshot.present
    /\ session'.last_good_snapshot.state_hash = collect_sync_state(lock', config').state_hash
    /\ session'.bootstrap_host_peer_id = NoPeer

\* C10 as stated: the joiner's run adopts everything of the host without
\* recording a conflict, and with all binaries fetched it returns synced,
\* stores the adopted state and clears the bootstrap host.
C10_Original ==
    [][\A host \in Peers :
        JoinerFirstRun(host) =>
            /\ AdoptedFrom(host)
            /\ result'.conflicts = <<>>
            /\ result'.binary_sync_failures = 0 => FirstSyncDone]_vars

\* C10: the joiner's run, with the host trusted, adopts everything of the
\* host and records no conflict against the host; when the run records no
\* conflict at all, all binaries are fetched, every peer answers and no
\* untrusted peer differs, it returns synced, stores the adopted state and
\* clears the bootstrap host.
C10_JoinerSeedsFromTrustedHost ==
    [][\A host \in Peers :
        JoinerFirstRun(host) /\ host \in TrustedIn(session) =>
            /\ AdoptedFrom(host)
            /\ \A i \in 1..Len(result'.conflicts) : result'.conflicts[i].peer_id # host
            /\ ( /\ result'.conflicts = <<>>
                 /\ result'.binary_sync_failures = 0
                 /\ result'.offline_peers = 0
                 /\ result'.skipped_review_only = 0 ) => FirstSyncDone]_vars

\* A joiner's diverged value was replaced by the host's and the first sync
\* completed.
C10_Witness ==
    /\ result.op = "reconcile"
    /\ result.status = "synced"
    /\ \E i \in 1..Len(result.actions) :
          /\ result.actions[i].message = "Applied initial baseline"
          /\ result.actions[i].peer_id \in PeerIds(session)
    /\ session.bootstrap_host_peer_id = NoPeer
    /\ session.last_good_snapshot.present


(* ------------------------------ conflicts ------------------------------ *)
\* The conflicts of result r recorded for key k against peer p.
ConflictsFor(r, k, p) ==
    {i \in 1..Len(r.conflicts) : r.conflicts[i].key = k /\ r.conflicts[i].peer_id = p}

\* Before the run: trusted peer p answers and holds, for the locally diverged
\* key k, a value whose hash is neither the local one nor the baseline's.
ThreeWayDiverged(k, p) ==
    /\ p \in TrustedIn(session)
    /\ peer_up[p]
    /\ PeerValue(p, k) # Absent
    /\ LocallyDiverged(session, lock, config, k)
    /\ EntryHash(k, PeerValue(p, k)) # EntryHash(k, LocalValue(lock, config, k))
    /\ (k \in DOMAIN BaselineOf(session) => BaselineOf(session)[k] # EntryHash(k, PeerValue(p, k)))

\* The run recorded exactly one conflict for k against p, between the local
\* value collected at its start and the peer's value, and ended conflicted.
OneConflictRecorded(k, p) ==
    /\ Cardinality(ConflictsFor(result', k, p)) = 1
    /\ \A i \in ConflictsFor(result', k, p) :
          /\ result'.conflicts[i].mine_hash = EntryHash(k, LocalValue(lock, config, k))
          /\ result'.conflicts[i].theirs_hash = EntryHash(k, PeerValue(p, k))
          /\ result'.conflicts[i].mine_hash # result'.conflicts[i].theirs_hash
    /\ result'.status = "conflicted"

PendingFor(s, k) == {i \in 1..Len(s.pending_conflicts) : s.pending_conflicts[i].key = k}

\* The step is resolve_conflicts giving resolution r to the i-th pending conflict.
Resolves(i, r) ==
    /\ result'.op = "resolve_conflicts"
    /\ i \in 1..Len(session.pending_conflicts)
    /\ result'.resolved[i].resolution = r

\* The step is resolve_conflicts taking the peer's value for the i-th pending
\* conflict, whose retained value differs from the local one and is still
\* what the conflict's peer holds.
TakesTheirs(i) ==
    /\ Resolves(i, "take_theirs")
    /\ LocalValue(lock, config, session.pending_conflicts[i].key) # session.pending_conflicts[i].theirs_value
    /\ PeerValue(session.pending_conflicts[i].peer_id, session.pending_conflicts[i].key) = session.pending_conflicts[i].theirs_value

\* The local value of the conflict's key is the retained one, no conflict is
\* pending for the key, and the call returned synced.
TakenAndSynced(c) ==
    /\ LocalValue(lock', config', c.key) = c.theirs_value
    /\ PendingFor(session', c.key) = {}
    /\ result'.status = "synced"

\* C12 as stated: taking theirs for a pending conflict whose peer still holds
\* the retained value, with every needed binary fetched, leaves the local
\* value at the retained one, no pending conflict for the key and status synced.
C12_Original ==
    [][\A i \in 1..2 :
        (TakesTheirs(i) /\ result'.binary_sync_failures = 0)
        => TakenAndSynced(session.pending_conflicts[i])]_vars

\* No other pending conflict is for the key of the i-th, and every trusted
\* peer that answers and has the key holds the retained value.
NothingCompetes(i) ==
    /\ PendingFor(session, session.pending_conflicts[i].key) = {i}
    /\ \A q \in TrustedIn(session) :
          (peer_up[q] /\ PeerValue(q, session.pending_conflicts[i].key) # Absent)
          => PeerValue(q, session.pending_conflicts[i].key) = session.pending_conflicts[i].theirs_value

\* C12: taking theirs for the only pending conflict of a key, when every
\* trusted answering peer that has the key holds the retained value, leaves
\* the local value at the retained one and no conflict pending for the key;
\* the call returns synced when, besides, the run it triggers records no
\* conflict for another key, every peer answers, no untrusted peer differs
\* and every needed binary is fetched.
C12_TakeTheirsAdoptsRetainedValue ==
    [][\A i \in 1..2 :
        (TakesTheirs(i) /\ NothingCompetes(i))
        => /\ LocalValue(lock', config', session.pending_conflicts[i].key) = session.pending_conflicts[i].theirs_value
           /\ PendingFor(session', session.pending_conflicts[i].key) = {}
           /\ ( /\ result'.conflicts = <<>>
                /\ result'.offline_peers = 0
                /\ result'.skipped_review_only = 0
                /\ result'.binary_sync_failures = 0 )
              => TakenAndSynced(session.pending_conflicts[i])]_vars

\* resolve_conflicts returned synced with a value that only a peer held before.
C12_Witness ==
    /\ result.op = "resolve_conflicts"
    /\ result.status = "synced"
    /\ session.pending_conflicts = <<>>
    /\ \E i \in 1..Len(result.resolved) :
          /\ result.resolved[i].resolution = "take_theirs"
          /\ result.resolved[i].conflict.mine_hash # result.resolved[i].conflict.theirs_hash
          /\ LocalValue(lock, config, result.resolved[i].conflict.key) = result.resolved[i].conflict.theirs_value
          /\ PeerValue(result.resolved[i].conflict.peer_id, result.resolved[i].conflict.key) = result.resolved[i].conflict.theirs_value


\* The i-th pending conflict still describes both sides: the local value has
\* the hash the conflict recorded as mine and its peer holds the retained value.
StillAsRecorded(i) ==
    /\ session.pending_conflicts[i].mine_hash = EntryHash(session.pending_conflicts[i].key, LocalValue(lock, config, session.pending_conflicts[i].key))
    /\ PeerValue(session.pending_conflicts[i].peer_id, session.pending_conflicts[i].key) = session.pending_conflicts[i].theirs_value

\* C13: when resolve_conflicts resolves a pending conflict with an explicit
\* keep_mine, and neither side has changed since the conflict was recorded, no
\* conflict for the key is pending when the call returns and the local value
\* of the key is the one it was.
C13_KeepMineClearsConflict ==
    [][\A i \in 1..2 :
        (Resolves(i, "keep_mine") /\ result'.resolved[i].explicit /\ StillAsRecorded(i))
        => /\ PendingFor(session', session.pending_conflicts[i].key) = {}
           /\ LocalValue(lock', config', session.pending_conflicts[i].key) = LocalValue(lock, config, session.pending_conflicts[i].key)]_vars


\* Session s has a pending conflict for the key and against the peer of conflict c.
StillPending(s, c) ==
    \E j \in 1..Len(s.pending_conflicts) :
        /\ s.pending_conflicts[j].key = c.key
        /\ s.pending_conflicts[j].peer_id = c.peer_id

\* C14: a pending conflict that resolve_conflicts treats as skip_for_now, by
\* its own item or by default, is still pending when the call returns,
\* whatever the run it triggers finds.
C14_SkippedConflictStaysPending ==
    [][\A i \in 1..2 :
        Resolves(i, "skip_for_now") => StillPending(session', session.pending_conflicts[i])]_vars


(* ------------------------------ offline peers -------------------------- *)
\* The step is a returned prelaunch reconcile in which a peer of the session
\* did not answer, no conflict was recorded and no content file failed.
PrelaunchOfflineRun ==
    /\ ReconcileReturned
    /\ result'.mode = "prelaunch"
    /\ \E p \in PeerIds(session) : ~peer_up[p]
    /\ result'.conflicts = <<>>
    /\ result'.binary_sync_failures = 0

\* The local state the run left is the one of the last-good snapshot.
EndsAtLastGood ==
    /\ session.last_good_snapshot.present
    /\ collect_sync_state(lock', config').state_hash = session.last_good_snapshot.state_hash

\* C15: a prelaunch reconcile with a peer that does not answer, no conflict
\* and no binary failure returns degraded_offline_last_good without a
\* blocked_reason when the final local state hash is the last-good snapshot's,
\* and blocked_offline_stale with a blocked_reason when it is not.
C15_OfflinePrelaunchStatus ==
    [][PrelaunchOfflineRun =>
        IF EndsAtLastGood
        THEN result'.status = "degraded_offline_last_good" /\ result'.blocked_reason = "none"
        ELSE result'.status = "blocked_offline_stale" /\ result'.blocked_reason # "none"]_vars

\* A prelaunch run with an offline peer ended on the snapshot's state.
C15_Witness ==
    /\ result.op = "reconcile"
    /\ result.mode = "prelaunch"
    /\ result.status = "degraded_offline_last_good"
    /\ result.offline_peers > 0
    /\ \E p \in PeerIds(session) : ~peer_up[p]
    /\ session.last_good_snapshot.present
    /\ session.last_good_snapshot.state_hash = collect_sync_state(lock, config).state_hash
    /\ \E k \in Keys : LocalValue(lock, config, k) # Absent


(* ------------------------------ bootstrap host ------------------------- *)
\* The step is a join_session.
JoinStep == \E host \in Peers : \E others \in {<<>>} \cup {<<q>> : q \in Peers \ {host}} : JoinSession(host, others)

\* The step is a reconcile, run as the command or at the end of
\* resolve_conflicts, that returned synced.
SyncedReconcileStep ==
    /\ result'.op \in {"reconcile", "resolve_conflicts"}
    /\ result'.status = "synced"

\* C16: in a session that stays linked, bootstrap_host_peer_id is set by
\* join_session, to the invite's host, and cleared by a reconcile that
\* returns synced; no other step changes it: not a reconcile with another
\* status or an aborted one, not sync_selected whatever it returns, not the
\* writes of resolve_conflicts, not a settings command.
C16_BootstrapHostSetByJoinClearedBySynced ==
    [][/\ (session'.linked /\ session'.bootstrap_host_peer_id # session.bootstrap_host_peer_id)
          => \/ JoinStep
             \/ SyncedReconcileStep /\ session'.bootstrap_host_peer_id = NoPeer
       /\ \A host \in Peers : \A others \in {<<>>} \cup {<<q>> : q \in Peers \ {host}} :
             JoinSession(host, others) => session'.bootstrap_host_peer_id = host
       /\ SyncedReconcileStep => session'.bootstrap_host_peer_id = NoPeer]_vars

\* A sync_selected returned synced and stored the snapshot, and the bootstrap
\* host is still recorded.
C16_Witness ==
    /\ result.op = "sync_selected"
    /\ result.status = "synced"
    /\ result.actions # <<>>
    /\ session.last_good_snapshot.present
    /\ session.bootstrap_host_peer_id \in PeerIds(session)


(* ------------------------------ group size ----------------------------- *)
\* The step is the listener receiving frame, a hello that passed the checks
\* of group, signature, timestamp and nonce.
HelloReceived(frame) ==
    /\ frame.payload_type = "hello"
    /\ frame.nonce = net_log'.nonce
    /\ incoming_check(frame) = "ok"
    /\ ListenerReceive(frame)

\* C17: a persisted session never lists more than 7 peers besides the
\* instance itself.  A hello of a peer id not in the list, received when the
\* list holds 7 peers, is answered with an error and leaves the session as
\* it was; any other hello, that of a listed peer included, is accepted and
\* its sender is listed afterwards.  A join never ends with more than 7 peers.
C17_GroupNeverExceedsEight ==
    [][/\ Len(session'.peers) <= 7
       /\ Len(session'.peers) + 1 <= 8
       /\ \A frame \in FramesOf({"hello"}, GroupPeers) :
             HelloReceived(frame) =>
                IF frame.from_peer_id \notin PeerIds(session) /\ Len(session.peers) >= 7
                THEN /\ session' = session
                     /\ net_log'.reply = "error"
                     /\ ~net_log'.acted
                ELSE /\ frame.from_peer_id \in PeerIds(session')
                     /\ PeerIds(session') = PeerIds(session) \cup {frame.from_peer_id}
                     /\ net_log'.reply = "hello_ack"
       /\ \A others \in JoinAcks :
             JoinSession(JoinedHost, others) => Len(upsert_peers(<<JoinedHost>>, others)) <= 7]_vars

\* The listener turned away the hello of a ninth member: a well-formed frame
\* with a fresh nonce, answered with an error, the 7 listed peers unchanged.
C17_Witness ==
    /\ net_log.side = "listener"
    /\ net_log.reply = "error"
    /\ net_log.group_ok /\ net_log.signature_ok /\ net_log.timestamp_ok /\ net_log.nonce_unseen
    /\ net_log.session_unchanged
    /\ ~net_log.acted
    /\ Len(session.peers) = 7


(* ------------------------------ trusted peers -------------------------- *)
NoDuplicates(ids) == \A i, j \in 1..Len(ids) : i # j => ids[i] # ids[j]

\* A list of ids is a duplicate-free list of ids of peers of session s.
TrustedListOk(s, ids) == NoDuplicates(ids) /\ IdSet(ids) \subseteq PeerIds(s)

\* C18 as stated: the stored trusted list is a duplicate-free list of peers
\* of the session, and so is the normalization of any input, which has no id
\* that is not an element of the input.
C18_Original ==
    /\ TrustedListOk(session, session.trusted_peer_ids)
    /\ \A input \in TrustedInputs :
          /\ TrustedListOk(session, normalize_trusted_peer_ids(session, input))
          /\ IdSet(normalize_trusted_peer_ids(session, input)) \subseteq IdSet(input)

\* C18: after any sequence of commands and hellos the stored trusted list is
\* a duplicate-free list of ids of the session's peers; the normalization of
\* any input list is one too, and each of its ids is an element of the input
\* with the blanks around it removed, so that an empty input gives an empty
\* list whatever peers the session has.
C18_TrustedIsSubsetOfPeers ==
    /\ TrustedListOk(session, session.trusted_peer_ids)
    /\ \A input \in TrustedInputs :
          /\ TrustedListOk(session, normalize_trusted_peer_ids(session, input))
          /\ IdSet(normalize_trusted_peer_ids(session, input)) \subseteq {trim(id) : id \in IdSet(input)}
          /\ input = <<>> => normalize_trusted_peer_ids(session, input) = <<>>

\* The user emptied the trusted list of a session that has peers, and a later
\* run kept it empty.
C18_Witness ==
    /\ session.peers # <<>>
    /\ session.trusted_peer_ids = <<>>
    /\ session.trusted_peer_ids_initialized
    /\ result.op = "reconcile"
    /\ result.status = "blocked_untrusted"


\* What one normalization of session s does with the trusted list: the first
\* one with a peer fills an empty list with every peer and sets the flag,
\* without a peer nothing is set, and once the flag is set only unknown ids
\* are dropped; a second normalization changes nothing.
InitializedOnce(s) ==
    /\ (~s.trusted_peer_ids_initialized /\ s.peers # <<>>)
       => /\ ensure_trusted_peer_ids_initialized(s).trusted_peer_ids_initialized
          /\ ensure_trusted_peer_ids_initialized(s).trusted_peer_ids =
                IF normalize_trusted_peer_ids(s, s.trusted_peer_ids) = <<>>
                THEN s.peers
                ELSE normalize_trusted_peer_ids(s, s.trusted_peer_ids)
    /\ (~s.trusted_peer_ids_initialized /\ s.peers = <<>>)
       => /\ ~ensure_trusted_peer_ids_initialized(s).trusted_peer_ids_initialized
          /\ ensure_trusted_peer_ids_initialized(s).trusted_peer_ids = <<>>
    /\ s.trusted_peer_ids_initialized
       => /\ ensure_trusted_peer_ids_initialized(s).trusted_peer_ids_initialized
          /\ IdSet(ensure_trusted_peer_ids_initialized(s).trusted_peer_ids)
                = IdSet(s.trusted_peer_ids) \cap PeerIds(s)
    /\ ensure_trusted_peer_ids_initialized(ensure_trusted_peer_ids_initialized(s))
          = ensure_trusted_peer_ids_initialized(s)

\* The step is a set_guardrails.
GuardrailsStep == \E trusted_input \in TrustedInputs : \E sync_mods \in {"none", "true", "false"} : SetGuardrails(trusted_input, sync_mods)

\* C19: trust is initialized exactly once.  Normalizing a session whose flag
\* is not set fills the trusted list with every peer when there is a peer and
\* no valid trusted id, and sets the flag; without a peer it leaves the list
\* empty and the flag unset.  Once the flag is set, in a session that is
\* neither left nor replaced by a join, only set_guardrails puts an id into
\* the trusted list: every other step leaves the flag set and adds no id.
C19_TrustInitializedOnce ==
    [][/\ InitializedOnce(session)
       /\ InitializedOnce(session')
       /\ (session.trusted_peer_ids_initialized /\ ~LeaveSession /\ ~JoinStep /\ ~GuardrailsStep)
          => /\ session'.trusted_peer_ids_initialized
             /\ IdSet(session'.trusted_peer_ids) \subseteq IdSet(session.trusted_peer_ids)]_vars

\* A host that trusted its first peer by initialization did not come to
\* trust the peer that said hello later: the later run left the list alone.
C19_Witness ==
    /\ result.op = "reconcile"
    /\ session.bootstrap_host_peer_id = NoPeer
    /\ ~session.last_good_snapshot.present
    /\ session.peers = <<"A", "B">>
    /\ session.trusted_peer_ids = <<"A">>
    /\ session.trusted_peer_ids_initialized


\* The step is a sync_selected asked for keys (empty = every key).
SelectedStep(keys, metadata_only) ==
    /\ result'.op = "sync_selected"
    /\ result'.mode = SelectedMode(metadata_only)
    /\ SyncSelected(keys, metadata_only)

\* The drift items the run sees, each with the trust of its peer.
DriftSeen == preview_friend_link_drift_inner(normalize_session_friend_link_settings(session), Disk).items

\* Positions of the seen items that the request selects, by trust of the peer.
SelectedPositions(items, keys, trusted) ==
    {i \in 1..Len(items) : /\ keys = {} \/ items[i].key \in keys
                           /\ items[i].trusted_peer = trusted}

\* The value of key k after the step is what a selected item of a trusted
\* peer brings: the peer's value, or nothing for a removal.
BroughtByTrusted(items, keys, k) ==
    \E i \in SelectedPositions(items, keys, TRUE) :
        /\ items[i].key = k
        /\ items[i].peer_id \in TrustedIn(session)
        /\ IF k \in LockKeys
           THEN lock'[k] = (IF items[i].change = "removed" THEN Absent ELSE peer_lock[items[i].peer_id][k])
           ELSE config'[k] = (IF items[i].change = "removed" THEN Absent ELSE peer_config[items[i].peer_id][k])

LocalTouched(k) ==
    IF k \in LockKeys THEN lock'[k] # lock[k] \/ files'[k] # files[k]
    ELSE config'[k] # config[k]

UntrustedLeftAlone(items, keys) ==
    /\ result'.skipped_review_only = Cardinality(SelectedPositions(items, keys, FALSE))
    /\ \A k \in Keys : LocalTouched(k) => BroughtByTrusted(items, keys, k)
    /\ \A i \in 1..Len(result'.actions) :
          /\ result'.actions[i].peer_id \in TrustedIn(session) \cup {"provider"}
          /\ BroughtByTrusted(items, keys, result'.actions[i].key)
    /\ result'.skipped_review_only > 0
       => /\ session'.last_good_snapshot = session.last_good_snapshot
          /\ result'.status \in {"blocked_untrusted", "degraded_missing_files"}
          /\ result'.binary_sync_failures = 0 => result'.status = "blocked_untrusted"

\* C20: sync_selected applies no drift item of a peer outside the trusted
\* list, selected by key or not: every local entry, config file or content
\* file it touches gets what a selected item of a trusted peer brings, every
\* recorded action is of a trusted peer (or the provider's download for such
\* an item), the selected items of untrusted peers are counted, and with one
\* counted the snapshot is not stored and the status is blocked_untrusted
\* unless a content file could not be fetched.
C20_SelectedSkipsUntrusted ==
    [][result'.op = "sync_selected"
       => \A items \in {DriftSeen} : \A keys \in SUBSET Keys : \A metadata_only \in BOOLEAN :
             SelectedStep(keys, metadata_only) => UntrustedLeftAlone(items, keys)]_vars

\* A selective run counted the differing entry of an online peer that is not
\* trusted, reported blocked_untrusted and left the local entry as it was.
C20_Witness ==
    /\ result.op = "sync_selected"
    /\ result.status = "blocked_untrusted"
    /\ result.skipped_review_only > 0
    /\ \E p \in PeerIds(session) \ TrustedIn(session) : \E k \in LockKeys :
          /\ peer_up[p]
          /\ peer_lock[p][k] # Absent
          /\ peer_lock[p][k] # lock[k]


(* ------------------------- leaving a session --------------------------- *)
\* leave_session has returned without an error.
LeaveReturned == command.pc = "returned" /\ command.ret = "ok"

\* The listener thread takes a frame to handle.
FrameTaken == listener.pc = "accept" /\ listener'.pc = "read_store"

\* C21: when leave_session has returned, the listener's socket is closed,
\* so that its port can be bound again at once, and the listener thread takes
\* no further frame to handle.
C21_LeaveReleasesPort ==
    /\ [](LeaveReturned => ~listener.bound)
    /\ [][LeaveReturned => ~FrameTaken]_vars

\* The store file holds a session record of the instance.
HoldsSession(file) == read_store_at_path(file).ok /\ read_store_at_path(file).store.linked

\* C22: after leave_session has returned the store holds no session record of
\* the instance, also when the listener thread was handling a hello while
\* leave_session ran.
C22_NoSessionAfterLeave == LeaveReturned => ~HoldsSession(store_file)

\* A thread reads the store file.
StoreRead == LeaveReadStore \/ ListenerReadStore

\* A write of the store fails on the way.
StoreWriteFails == LeaveWriteFails \/ ListenerWriteFails

\* C23: a store write that fails on the way leaves a whole store document on
\* disk, and no thread that reads the store file finds a truncated or partly
\* written document.
C23_StoreNeverPartial ==
    [][/\ StoreWriteFails => from_str(store_file'.raw).ok
       /\ StoreRead => read_store_at_path(store_file).ok]_vars


(* ------------------------------ path safety ---------------------------- *)
\* C24: every path the engine reads, writes or deletes and that is built
\* from a peer's or a caller's data has passed safe_rel_path, has no `..`
\* component and lies in the instance directory.
C24_PathsPassTheGate ==
    touched.accessed => /\ touched.gated
                        /\ ~HasParentComponent(touched.path)
                        /\ InsideInstance(touched.path)

\* The paths that do pass the gate are safe: config files
\* are written below the instance directory, at a path without `..`.
GatedPathsAreSafe ==
    (touched.accessed /\ touched.gated)
       => ~HasParentComponent(touched.path) /\ InsideInstance(touched.path)


(* ------------------------- content type toggles ------------------------ *)
\* The content type an item is about, as its key names it.
ItemContentType(item) == normalized_content_type(item.key[3])

\* The toggle of a content type, by its canonical name.
ToggleOf(toggles, t) ==
    IF t = "mods" THEN toggles.sync_mods
    ELSE IF t = "resourcepacks" THEN toggles.sync_resourcepacks
    ELSE IF t = "shaderpacks" THEN toggles.sync_shaderpacks
    ELSE toggles.sync_datapacks

C26_RemovedOnlyWithSinglePeer ==
    session.linked =>
       \A i \in 1..Len(DriftSeen) :
          DriftSeen[i].change = "removed"
             => /\ Len(session.peers) = 1
                /\ LocalValue(lock, config, DriftSeen[i].key) # Absent
                /\ PeerValue(DriftSeen[i].peer_id, DriftSeen[i].key) = Absent


(* ------------------------ the session's settings ----------------------- *)
\* Allowlist entries are texts cut into pieces: a name, a separator or a
\* blank.  A name is written in lower case, or with capitals.
lower_piece(piece) ==
    CASE piece = "OPTIONS.TXT" -> "options.txt"
      [] piece = "MODS" -> "mods"
      [] piece = "Saves" -> "saves"
      [] piece = "ResourcePacks" -> "resourcepacks"
      [] piece = "CONFIG" -> "config"
      [] OTHER -> piece

to_lowercase(s) == [i \in 1..Len(s) |-> lower_piece(s[i])]

eq_ignore_ascii_case(a, b) == to_lowercase(a) = to_lowercase(b)

starts_with(s, prefix) == Len(s) >= Len(prefix) /\ SubSeq(s, 1, Len(prefix)) = prefix

default_allowlist ==
    << <<"options.txt">>, <<"config", "/", "**/*.json">>, <<"config", "/", "**/*.toml">>,
       <<"config", "/", "**/*.properties">> >>

hard_excluded_prefixes ==
    << <<"saves", "/">>, <<"logs", "/">>, <<"crash-reports", "/">>, <<"screenshots", "/">>,
       <<"resourcepacks", "/">>, <<"shaderpacks", "/">>, <<"mods", "/">> >>

\* The test against the first of the prefixes only.
is_hard_excluded_first(lower) == starts_with(lower, hard_excluded_prefixes[1])

is_hard_excluded(lower) ==
    \E i \in 1..Len(hard_excluded_prefixes) : starts_with(lower, hard_excluded_prefixes[i])

\* The loop of normalize_allowlist over the entries, with what it has kept
\* and the lower-case forms it has seen.
RECURSIVE allowlist_loop(_, _, _)
allowlist_loop(base, out, seen) ==
    IF base = <<>> THEN out
    ELSE LET trimmed == replace_backslash(str_trim(Head(base)))
             lower == to_lowercase(trimmed)
         IN  IF trimmed = <<>> THEN allowlist_loop(Tail(base), out, seen)
             ELSE IF is_hard_excluded(lower) THEN allowlist_loop(Tail(base), out, seen)
             ELSE IF lower \in seen THEN allowlist_loop(Tail(base), out, seen)
             ELSE allowlist_loop(Tail(base), Append(out, trimmed), seen \union {lower})

with_options_txt(out) ==
    IF \E i \in 1..Len(out) : eq_ignore_ascii_case(out[i], <<"options.txt">>) THEN out
    ELSE <<<<"options.txt">>>> \o out

normalize_allowlist(input) ==
    with_options_txt(allowlist_loop(IF input = <<>> THEN default_allowlist ELSE input, <<>>, {}))

(* ------------------------------ invite codes --------------------------- *)
\* Texts are sequences of characters.  The printable characters of ASCII, in
\* the order of their codes, from the blank (32) to the tilde (126); the
\* grave accent (96) is written as a word.
VisibleAscii ==
    <<" ", "!", "\"", "#", "$", "%", "&", "'", "(", ")", "*", "+", ",", "-", ".", "/",
      "0", "1", "2", "3", "4", "5", "6", "7", "8", "9", ":", ";", "<", "=", ">", "?",
      "@", "A", "B", "C", "D", "E", "F", "G", "H", "I", "J", "K", "L", "M", "N", "O",
      "P", "Q", "R", "S", "T", "U", "V", "W", "X", "Y", "Z", "[", "\\", "]", "^", "_",
      "grave", "a", "b", "c", "d", "e", "f", "g", "h", "i", "j", "k", "l", "m", "n", "o",
      "p", "q", "r", "s", "t", "u", "v", "w", "x", "y", "z", "{", "|", "}", "~">>

Chars == {VisibleAscii[i] : i \in 1..Len(VisibleAscii)}

CodeOf == [c \in Chars |-> 31 + CHOOSE i \in 1..Len(VisibleAscii) : VisibleAscii[i] = c]

\* str::as_bytes, and String::from_utf8 for the bytes that stand for such a text.
as_bytes(text) == [i \in 1..Len(text) |-> CodeOf[text[i]]]

is_text(bytes) == \A i \in 1..Len(bytes) : bytes[i] - 31 \in 1..Len(VisibleAscii)

from_utf8(bytes) == [i \in 1..Len(bytes) |-> VisibleAscii[bytes[i] - 31]]

\* The URL-safe alphabet of base64: the symbol of each group of six bits.
URL_SAFE ==
    <<"A", "B", "C", "D", "E", "F", "G", "H", "I", "J", "K", "L", "M", "N", "O", "P",
      "Q", "R", "S", "T", "U", "V", "W", "X", "Y", "Z", "a", "b", "c", "d", "e", "f",
      "g", "h", "i", "j", "k", "l", "m", "n", "o", "p", "q", "r", "s", "t", "u", "v",
      "w", "x", "y", "z", "0", "1", "2", "3", "4", "5", "6", "7", "8", "9", "-", "_">>

SextetOf == [c \in {URL_SAFE[i] : i \in 1..Len(URL_SAFE)} |-> (CHOOSE i \in 1..Len(URL_SAFE) : URL_SAFE[i] = c) - 1]

byte_at(bytes, i) == IF i <= Len(bytes) THEN bytes[i] ELSE 0

\* The j-th group of six bits (from 0) of the bytes, the last one filled with zeros.
sextet_at(bytes, j) ==
    CASE j % 4 = 0 -> byte_at(bytes, 3 * (j \div 4) + 1) \div 4
      [] j % 4 = 1 -> (byte_at(bytes, 3 * (j \div 4) + 1) % 4) * 16 + byte_at(bytes, 3 * (j \div 4) + 2) \div 16
      [] j % 4 = 2 -> (byte_at(bytes, 3 * (j \div 4) + 2) % 16) * 4 + byte_at(bytes, 3 * (j \div 4) + 3) \div 64
      [] OTHER -> byte_at(bytes, 3 * (j \div 4) + 3) % 64

\* URL_SAFE_NO_PAD.encode: four symbols for three bytes, no padding.
base64_encode(bytes) == [k \in 1..((4 * Len(bytes) + 2) \div 3) |-> URL_SAFE[sextet_at(bytes, k - 1) + 1]]

sextet_of(code, k) == IF k <= Len(code) THEN SextetOf[code[k]] ELSE 0

\* The i-th byte (from 0) the symbols stand for.
decoded_byte_at(code, i) ==
    CASE i % 3 = 0 -> sextet_of(code, 4 * (i \div 3) + 1) * 4 + sextet_of(code, 4 * (i \div 3) + 2) \div 16
      [] i % 3 = 1 -> (sextet_of(code, 4 * (i \div 3) + 2) % 16) * 16 + sextet_of(code, 4 * (i \div 3) + 3) \div 4
      [] OTHER -> (sextet_of(code, 4 * (i \div 3) + 3) % 4) * 64 + sextet_of(code, 4 * (i \div 3) + 4)

\* The bits of the last symbol that belong to no byte.
trailing_bits(code) ==
    CASE Len(code) % 4 = 2 -> SextetOf[code[Len(code)]] % 16
      [] Len(code) % 4 = 3 -> SextetOf[code[Len(code)]] % 4
      [] OTHER -> 0

\* URL_SAFE_NO_PAD.decode: an error for a symbol outside the alphabet (the
\* padding sign is one), for a length no encoding has, and for trailing bits
\* that are not zero.
base64_decode(code) ==
    IF \E k \in 1..Len(code) : code[k] \notin DOMAIN SextetOf THEN [ok |-> FALSE, bytes |-> <<>>]
    ELSE IF Len(code) % 4 = 1 THEN [ok |-> FALSE, bytes |-> <<>>]
    ELSE IF trailing_bits(code) # 0 THEN [ok |-> FALSE, bytes |-> <<>>]
    ELSE [ok |-> TRUE, bytes |-> [i \in 1..((3 * Len(code)) \div 4) |-> decoded_byte_at(code, i - 1)]]

\* serde_json writes a text between quotes, the quote and the backslash
\* behind a backslash.
escape_char(c) == IF c \in {"\"", "\\"} THEN <<"\\", c>> ELSE <<c>>

RECURSIVE json_escape(_)
json_escape(s) == IF s = <<>> THEN <<>> ELSE escape_char(Head(s)) \o json_escape(Tail(s))

json_string(s) == <<"\"">> \o json_escape(s) \o <<"\"">>

Digits == <<"0", "1", "2", "3", "4", "5", "6", "7", "8", "9">>

DigitOf == [c \in {Digits[i] : i \in 1..Len(Digits)} |-> (CHOOSE i \in 1..Len(Digits) : Digits[i] = c) - 1]

\* A number written in decimal.
RECURSIVE decimal(_)
decimal(n) == IF n < 10 THEN <<Digits[n + 1]>> ELSE decimal(n \div 10) \o <<Digits[(n % 10) + 1]>>

\* The fields of InvitePayload in the order of their declaration, and their names.
InviteFields == <<"group_id", "bootstrap_peer_endpoint", "shared_secret", "expires_at", "protocol_version", "host_peer_id">>

FieldName ==
    [group_id |-> <<"g", "r", "o", "u", "p", "_", "i", "d">>,
     bootstrap_peer_endpoint |-> <<"b", "o", "o", "t", "s", "t", "r", "a", "p", "_", "p", "e", "e", "r", "_", "e", "n", "d", "p", "o", "i", "n", "t">>,
     shared_secret |-> <<"s", "h", "a", "r", "e", "d", "_", "s", "e", "c", "r", "e", "t">>,
     expires_at |-> <<"e", "x", "p", "i", "r", "e", "s", "_", "a", "t">>,
     protocol_version |-> <<"p", "r", "o", "t", "o", "c", "o", "l", "_", "v", "e", "r", "s", "i", "o", "n">>,
     host_peer_id |-> <<"h", "o", "s", "t", "_", "p", "e", "e", "r", "_", "i", "d">>]

\* A point in time as the invite carries it, and as it is read back: the
\* milliseconds in decimal.
to_rfc3339(time) == decimal(time)

field_text(payload, field) ==
    IF field = "protocol_version" THEN decimal(payload[field]) ELSE json_string(payload[field])

\* What stands before the value of the i-th field.
opening(i) == (IF i = 1 THEN <<"{">> ELSE <<",">>) \o json_string(FieldName[InviteFields[i]]) \o <<":">>

RECURSIVE fields_text(_, _)
fields_text(payload, i) ==
    IF i > Len(InviteFields) THEN <<"}">>
    ELSE opening(i) \o field_text(payload, InviteFields[i]) \o fields_text(payload, i + 1)

\* serde_json::to_vec of an InvitePayload.
to_vec(payload) == as_bytes(fields_text(payload, 1))

ParseFailed == [ok |-> FALSE, value |-> <<>>, next |-> 0]

has_at(text, pos, lit) == pos + Len(lit) - 1 <= Len(text) /\ SubSeq(text, pos, pos + Len(lit) - 1) = lit

\* A text read from behind its opening quote up to its closing quote.
RECURSIVE scan_string(_, _, _)
scan_string(text, pos, acc) ==
    IF pos > Len(text) THEN ParseFailed
    ELSE IF text[pos] = "\"" THEN [ok |-> TRUE, value |-> acc, next |-> pos + 1]
    ELSE IF text[pos] # "\\" THEN scan_string(text, pos + 1, Append(acc, text[pos]))
    ELSE IF pos < Len(text) /\ text[pos + 1] \in {"\"", "\\", "/"} THEN scan_string(text, pos + 2, Append(acc, text[pos + 1]))
    ELSE ParseFailed

\* A number of type u32 read from its digits; no zero in front of other
\* digits.  The numbers written here stay far below the width of u32.
RECURSIVE scan_number(_, _, _, _)
scan_number(text, pos, value, digits) ==
    IF pos <= Len(text) /\ text[pos] \in DOMAIN DigitOf
    THEN IF digits > 0 /\ value = 0 THEN ParseFailed
         ELSE scan_number(text, pos + 1, 10 * value + DigitOf[text[pos]], digits + 1)
    ELSE IF digits = 0 THEN ParseFailed
    ELSE [ok |-> TRUE, value |-> value, next |-> pos]

read_value(text, pos, field) ==
    IF field = "protocol_version" THEN scan_number(text, pos, 0, 0)
    ELSE IF has_at(text, pos, <<"\"">>) THEN scan_string(text, pos + 1, <<>>)
    ELSE ParseFailed

NoPayload ==
    [group_id |-> <<>>, bootstrap_peer_endpoint |-> <<>>, shared_secret |-> <<>>, expires_at |-> <<>>,
     protocol_version |-> 0, host_peer_id |-> <<>>]

NotParsed == [ok |-> FALSE, payload |-> NoPayload]

\* The fields read one after the other, as a build of the launcher writes
\* them: in the order of their declaration and without blanks between them.
RECURSIVE parse_fields(_, _, _, _)
parse_fields(text, pos, i, got) ==
    IF i > Len(InviteFields)
    THEN (IF pos = Len(text) /\ text[pos] = "}" THEN [ok |-> TRUE, payload |-> got] ELSE NotParsed)
    ELSE IF ~has_at(text, pos, opening(i)) THEN NotParsed
    ELSE CHOOSE parsed \in
             {IF v.ok THEN parse_fields(text, v.next, i + 1, [got EXCEPT ![InviteFields[i]] = v.value])
                      ELSE NotParsed
              : v \in {read_value(text, pos + Len(opening(i)), InviteFields[i])}} : TRUE

\* serde_json::from_slice into an InvitePayload.
from_slice(raw) == IF is_text(raw) THEN parse_fields(from_utf8(raw), 1, 1, NoPayload) ELSE NotParsed

RECURSIVE read_decimal(_, _, _)
read_decimal(text, pos, value) ==
    IF pos > Len(text) THEN value ELSE read_decimal(text, pos + 1, 10 * value + DigitOf[text[pos]])

\* DateTime::parse_from_rfc3339 on the text of to_rfc3339.
parse_from_rfc3339(text) ==
    IF text # <<>> /\ \A i \in 1..Len(text) : text[i] \in DOMAIN DigitOf
    THEN [ok |-> TRUE, value |-> read_decimal(text, 1, 0)]
    ELSE [ok |-> FALSE, value |-> 0]

PROTOCOL_VERSION == 1

\* An invite is good for 24 hours, in milliseconds.
InviteTtlMs == 24 * 60 * 60 * 1000

NoEndpoint == [some |-> FALSE, value |-> <<>>]

Some(value) == [some |-> TRUE, value |-> value]

\* local_ip_guess falls back to the loopback address.
local_ip_guess == <<"1", "2", "7", ".", "0", ".", "0", ".", "1">>

endpoint_for_port(port) == local_ip_guess \o <<":">> \o decimal(port)

\* The port the system hands out when a listener binds port 0.
EphemeralPort == 45001

\* ensure_listener: the port the listener of the instance is bound to.
ensure_listener_port(s) == IF s.listener_port = 0 THEN EphemeralPort ELSE s.listener_port

ensure_listener(s) ==
    [s EXCEPT !.listener_port = ensure_listener_port(s),
              !.listener_endpoint = Some(endpoint_for_port(ensure_listener_port(s)))]

NoInvite == [built |-> FALSE]

invite_payload(s, clock) ==
    [group_id |-> s.group_id,
     bootstrap_peer_endpoint |-> IF s.listener_endpoint.some THEN s.listener_endpoint.value
                                 ELSE endpoint_for_port(s.listener_port),
     shared_secret |-> s.shared_secret_b64,
     expires_at |-> to_rfc3339(clock + InviteTtlMs),
     protocol_version |-> PROTOCOL_VERSION,
     host_peer_id |-> s.local_peer_id]

\* build_invite: the code, and the fields shown next to it.
build_invite(s, clock) ==
    [built |-> TRUE,
     invite_code |-> base64_encode(to_vec(invite_payload(s, clock))),
     group_id |-> invite_payload(s, clock).group_id,
     expires_at |-> invite_payload(s, clock).expires_at,
     bootstrap_peer_endpoint |-> invite_payload(s, clock).bootstrap_peer_endpoint,
     protocol_version |-> PROTOCOL_VERSION]

is_blank(text) == str_trim(text) = <<>>

\* The checks of parse_invite on a payload that was read.
checked_payload(payload, clock) ==
    IF is_blank(payload.group_id) THEN NotParsed
    ELSE IF is_blank(payload.bootstrap_peer_endpoint) THEN NotParsed
    ELSE IF is_blank(payload.shared_secret) THEN NotParsed
    ELSE IF ~parse_from_rfc3339(payload.expires_at).ok THEN NotParsed
    ELSE IF parse_from_rfc3339(payload.expires_at).value < clock THEN NotParsed
    ELSE [ok |-> TRUE, payload |-> payload]

parse_invite(code, clock) ==
    CHOOSE parsed \in
        {IF ~raw.ok THEN NotParsed
         ELSE CHOOSE checked \in {IF read.ok THEN checked_payload(read.payload, clock) ELSE NotParsed
                                  : read \in {from_slice(raw.bytes)}} : TRUE
         : raw \in {base64_decode(str_trim(code))}} : TRUE

(* --------------------- the commands on the settings -------------------- *)
\* The session a fresh create builds: its ids are drawn at random.
NewSession ==
    [exists |-> TRUE,
     group_id |-> <<"g", "r", "o", "u", "p", "_", "1">>,
     local_peer_id |-> <<"p", "e", "e", "r", "_", "1">>,
     shared_secret_b64 |-> <<"c", "2", "V", "j">>,
     protocol_version |-> PROTOCOL_VERSION,
     listener_port |-> 0,
     listener_endpoint |-> NoEndpoint,
     allowlist |-> default_allowlist,
     max_auto_changes |-> 25,
     invite |-> NoInvite]

\* The session join builds from the payload of an invite.
JoinedSession(payload) ==
    [NewSession EXCEPT !.group_id = payload.group_id,
                       !.local_peer_id = <<"p", "e", "e", "r", "_", "2">>,
                       !.shared_secret_b64 = payload.shared_secret,
                       !.protocol_version = payload.protocol_version]

\* max_auto_changes as the store file may hold it: the field is missing in a
\* file written before the field existed and reads as 0; the file is read
\* as it is, whatever number it holds.
StoredLimits == {0, 25, 501}

\* The limit a caller of set_friend_link_guardrails passes: none (-1), or a number.
NoLimit == -1
LimitArgs == {NoLimit, 0, 1, 500, 501}

\* The session of the instance in the store file when the launcher starts.
StoredSessions ==
    {[NewSession EXCEPT !.max_auto_changes = limit, !.listener_port = port,
                        !.listener_endpoint = IF port = 0 THEN NoEndpoint ELSE Some(endpoint_for_port(port))]
     : limit \in StoredLimits, port \in {0, EphemeralPort}}

normalize_max_auto_changes(input) ==
    IF input = NoLimit THEN 25
    ELSE IF input < 1 THEN 1
    ELSE IF input > 500 THEN 500
    ELSE input

\* The part of normalize_session_friend_link_settings on the limit.
normalize_session_limit(s) ==
    IF s.max_auto_changes = 0 THEN [s EXCEPT !.max_auto_changes = 25] ELSE s

\* Entries a caller of set_friend_link_allowlist writes.
AllowlistEntries ==
    { <<>>, <<" ">>, <<"options.txt">>, <<" ", "OPTIONS.TXT", " ">>,
      <<"mods", "/", "x">>, <<"MODS", "\\", "x">>, <<" ", "Saves", "/", "x">>,
      <<"ResourcePacks", "/", "x">>, <<"/", "mods", "/", "x">>,
      <<"config", "/", "x">>, <<"CONFIG", "\\", "x">> }

MaxAllowlistLen == 2

AllowlistInputs == UNION {[1..n -> AllowlistEntries] : n \in 0..MaxAllowlistLen}

\* Payloads of invites other launchers have built.
ForeignPayloads ==
    {[group_id |-> group_id,
      bootstrap_peer_endpoint |-> <<"h", ":", "1">>,
      shared_secret |-> <<"c", "w">>,
      expires_at |-> to_rfc3339(expires),
      protocol_version |-> version,
      host_peer_id |-> <<"p", "e", "e", "r", "_", "3">>]
     : group_id \in {<<"g", "\"", "\\">>, <<" ">>}, expires \in {ClockStep, InviteTtlMs}, version \in {PROTOCOL_VERSION, PROTOCOL_VERSION + 1}}

\* The codes a user pastes into join: codes of other launchers, one of them
\* with blanks around it, one cut short, and a text that is no code.
ForeignCodes ==
    {base64_encode(to_vec(payload)) : payload \in ForeignPayloads}
    \cup {<<" ">> \o base64_encode(to_vec(payload)) \o <<" ">> : payload \in ForeignPayloads}
    \cup {SubSeq(base64_encode(to_vec(payload)), 1, 20) : payload \in ForeignPayloads}
    \cup {<<"n", "o", "=", "c", "o", "d", "e">>}

\* The code of the invite the last create returned.
OwnCodes == IF settings.exists /\ settings.invite.built THEN {settings.invite.invite_code} ELSE {}

settings_rest == <<sync_vars, net_vars, thread_vars, touched, drift, hashing, more_vars>>

\* create_friend_link_session: the session of the instance or a new one,
\* its listener, the settings normalised, the store written, an invite built.
CreateFriendLinkSession ==
    /\ \E s \in {normalize_session_limit(ensure_listener(
                     IF settings.exists THEN [settings EXCEPT !.invite = NoInvite] ELSE NewSession))} :
          settings' = [s EXCEPT !.invite = build_invite(s, now)]
    /\ UNCHANGED settings_rest

\* join_friend_link_session: nothing is stored when the invite is refused.
JoinFriendLinkSession(code) ==
    /\ \E invite \in {parse_invite(code, now)} :
          settings' = IF invite.ok
                      THEN normalize_session_limit(ensure_listener(JoinedSession(invite.payload)))
                      ELSE IF settings.exists THEN [settings EXCEPT !.invite = NoInvite]
                      ELSE settings
    /\ UNCHANGED settings_rest

LeaveFriendLinkSession ==
    /\ settings' = NoSettings
    /\ UNCHANGED settings_rest

\* get_friend_link_status; reconcile, preview and sync_selected normalise
\* the settings in the same way.
GetFriendLinkStatus ==
    /\ settings.exists
    /\ settings' = [normalize_session_limit(ensure_listener(settings)) EXCEPT !.invite = NoInvite]
    /\ UNCHANGED settings_rest

SetFriendLinkAllowlist(input) ==
    /\ settings.exists
    /\ settings' = [normalize_session_limit(settings) EXCEPT !.allowlist = normalize_allowlist(input),
                                                            !.invite = NoInvite]
    /\ UNCHANGED settings_rest

SetFriendLinkGuardrails(limit) ==
    /\ settings.exists
    /\ settings' = [normalize_session_limit(settings) EXCEPT
                       !.max_auto_changes = IF limit # NoLimit THEN normalize_max_auto_changes(limit)
                                            ELSE IF @ = 0 THEN 25 ELSE @,
                       !.invite = NoInvite]
    /\ UNCHANGED settings_rest

SettingsInit ==
    /\ lock = [k \in LockKeys |-> Absent]
    /\ config = [k \in ConfigKeys |-> Absent]
    /\ files = [k \in LockKeys |-> FALSE]
    /\ peer_lock = [p \in Peers |-> [k \in LockKeys |-> Absent]]
    /\ peer_config = [p \in Peers |-> [k \in ConfigKeys |-> Absent]]
    /\ peer_files = [p \in Peers |-> [k \in LockKeys |-> FALSE]]
    /\ peer_up = [p \in Peers |-> TRUE]
    /\ provider_has = FALSE
    /\ session = Unlinked
    /\ result = NoResult
    /\ edits = 0
    /\ now = 0
    /\ seen_nonces = {}
    /\ accepted_since = [n \in Nonces |-> -1]
    /\ client_seen = {}
    /\ net_log = NoNetLog
    /\ store_file = NoFile
    /\ command = CommandIdle
    /\ listener = ListenerGone
    /\ listener_map = NoHandle
    /\ touched = NoTouch
    /\ drift = NoDrift
    /\ hashing = NoHashing
    /\ MoreIdle
    /\ settings \in {NoSettings} \cup StoredSessions

SettingsNext ==
    \/ CreateFriendLinkSession
    \/ \E code \in ForeignCodes \cup OwnCodes : JoinFriendLinkSession(code)
    \/ LeaveFriendLinkSession
    \/ GetFriendLinkStatus
    \/ \E input \in AllowlistInputs : SetFriendLinkAllowlist(input)
    \/ \E limit \in LimitArgs : SetFriendLinkGuardrails(limit)
    \/ Tick

SettingsSpec == SettingsInit /\ [][SettingsNext]_vars


(* ------------------------------- C27 ----------------------------------- *)
ContainsOptionsTxt(list) == \E i \in 1..Len(list) : to_lowercase(list[i]) = <<"options.txt">>

NoExcludedEntry(list) ==
    \A i \in 1..Len(list) : \A j \in 1..Len(hard_excluded_prefixes) :
        ~starts_with(to_lowercase(list[i]), hard_excluded_prefixes[j])

\* C27: the allowlist of every session reached through create, join and
\* set_allowlist contains options.txt, in whatever case it is written, and no
\* entry whose lower-case form starts with a hard-excluded prefix; and
\* normalize_allowlist gives such a list for every list handed to
\* set_allowlist.
C27_AllowlistKeepsOptionsAndExclusions ==
    /\ settings.exists => ContainsOptionsTxt(settings.allowlist) /\ NoExcludedEntry(settings.allowlist)
    /\ \A input \in AllowlistInputs :
           ContainsOptionsTxt(normalize_allowlist(input)) /\ NoExcludedEntry(normalize_allowlist(input))

\* set_allowlist was handed an entry under an excluded folder and an allowed
\* one, written with capitals and backslashes, and no options.txt: the list
\* stored holds options.txt in front and the allowed entry as it was written,
\* with its backslash turned.
C27_Witness ==
    /\ settings.exists
    /\ settings.allowlist = << <<"options.txt">>, <<"CONFIG", "/", "x">> >>
    /\ normalize_allowlist(<< <<"MODS", "\\", "x">>, <<"CONFIG", "\\", "x">> >>) = settings.allowlist
    /\ normalize_allowlist(<< <<" ", "Saves", "/", "x">>, <<" ", "OPTIONS.TXT", " ">> >>) = << <<"OPTIONS.TXT">> >>

(* ------------------------------- C29 ----------------------------------- *)
SessionEndpoint(s) == IF s.listener_endpoint.some THEN s.listener_endpoint.value ELSE endpoint_for_port(s.listener_port)

\* What does hold of the invite create returns: it is read back without
\* error and carries the group id and the endpoint of the session, and the
\* protocol version of the build.
InviteCarriesBuildVersion ==
    settings.exists /\ settings.invite.built =>
        \A parsed \in {parse_invite(settings.invite.invite_code, now)} :
            /\ parsed.ok
            /\ parsed.payload.group_id = settings.group_id
            /\ parsed.payload.bootstrap_peer_endpoint = SessionEndpoint(settings)
            /\ parsed.payload.protocol_version = PROTOCOL_VERSION

\* C29: the code of the invite built from a session is read back by
\* parse_invite without error, and the payload read has the group id, the
\* listener endpoint and the protocol version of the session.
C29_InviteRoundTrip ==
    settings.exists /\ settings.invite.built =>
        \A parsed \in {parse_invite(settings.invite.invite_code, now)} :
            /\ parsed.ok
            /\ parsed.payload.group_id = settings.group_id
            /\ parsed.payload.bootstrap_peer_endpoint = SessionEndpoint(settings)
            /\ parsed.payload.protocol_version = settings.protocol_version

(* ------------------------------- C30 ----------------------------------- *)
SettingsNormalized ==
    \/ GetFriendLinkStatus
    \/ CreateFriendLinkSession
    \/ \E input \in AllowlistInputs : SetFriendLinkAllowlist(input)
    \/ \E limit \in LimitArgs : SetFriendLinkGuardrails(limit)

ascii_lower_char(c) == IF c \in Chars /\ CodeOf[c] \in 65..90 THEN VisibleAscii[CodeOf[c] + 32 - 31] ELSE c

to_ascii_lowercase(s) == [i \in 1..Len(s) |-> ascii_lower_char(s[i])]

\* The order of two texts: by the code of the first character that differs,
\* the shorter of two texts first when one begins the other.
RECURSIVE text_less(_, _)
text_less(a, b) ==
    IF b = <<>> THEN FALSE
    ELSE IF a = <<>> THEN TRUE
    ELSE IF Head(a) = Head(b) THEN text_less(Tail(a), Tail(b))
    ELSE CodeOf[Head(a)] < CodeOf[Head(b)]

RECURSIVE remove_whitespace(_)
remove_whitespace(s) ==
    IF s = <<>> THEN <<>>
    ELSE IF Head(s) = " " THEN remove_whitespace(Tail(s))
    ELSE <<Head(s)>> \o remove_whitespace(Tail(s))

\* normalize_hash_value that keeps the value as it is written between its ends.
normalize_hash_value_trim_only(input) == str_trim(input)

normalize_hash_value(input) == to_ascii_lowercase(remove_whitespace(str_trim(input)))

\* The entry of a BTreeMap at a key: the pairs in the order of their keys,
\* the smaller of two values of one key.
RECURSIVE btree_merge(_, _, _)
btree_merge(dedup, key, value) ==
    IF dedup = <<>> THEN << <<key, value>> >>
    ELSE IF Head(dedup)[1] = key
         THEN << <<key, IF text_less(value, Head(dedup)[2]) THEN value ELSE Head(dedup)[2]>> >> \o Tail(dedup)
    ELSE IF text_less(key, Head(dedup)[1]) THEN << <<key, value>> >> \o dedup
    ELSE <<Head(dedup)>> \o btree_merge(Tail(dedup), key, value)

\* normalized_hashes_pairs over the pairs in the order the map hands them out.
RECURSIVE normalized_hashes_loop(_, _)
normalized_hashes_loop(input, dedup) ==
    IF input = <<>> THEN dedup
    ELSE IF to_ascii_lowercase(str_trim(Head(input)[1])) = <<>> THEN normalized_hashes_loop(Tail(input), dedup)
    ELSE IF normalize_hash_value(Head(input)[2]) = <<>> THEN normalized_hashes_loop(Tail(input), dedup)
    ELSE normalized_hashes_loop(Tail(input),
             btree_merge(dedup, to_ascii_lowercase(str_trim(Head(input)[1])), normalize_hash_value(Head(input)[2])))

normalized_hashes_pairs(input) == normalized_hashes_loop(input, <<>>)

\* Vec::sort on texts, and Vec::dedup on the sorted texts.
RECURSIVE insert_sorted(_, _)
insert_sorted(sorted, text) ==
    IF sorted = <<>> THEN <<text>>
    ELSE IF text_less(text, Head(sorted)) THEN <<text>> \o sorted
    ELSE <<Head(sorted)>> \o insert_sorted(Tail(sorted), text)

RECURSIVE sort_texts(_)
sort_texts(texts) == IF texts = <<>> THEN <<>> ELSE insert_sorted(sort_texts(Tail(texts)), Head(texts))

RECURSIVE dedup_texts(_)
dedup_texts(texts) ==
    IF Len(texts) < 2 THEN texts
    ELSE IF texts[1] = texts[2] THEN dedup_texts(Tail(texts))
    ELSE <<Head(texts)>> \o dedup_texts(Tail(texts))

normalized_target_scope(input) == IF trim_lowercase(input) = "world" THEN "world" ELSE "instance"

\* The tuple lock_entry_hash hashes.
canonical_tuple(entry) ==
    <<to_ascii_lowercase(str_trim(entry.source)),
      to_ascii_lowercase(str_trim(entry.project_id)),
      str_trim(entry.version_id),
      str_trim(entry.name),
      str_trim(entry.version_number),
      str_trim(entry.filename),
      <<normalized_content_type(entry.content_type)>>,
      <<normalized_target_scope(entry.target_scope)>>,
      dedup_texts(sort_texts(entry.target_worlds)),
      entry.enabled,
      normalized_hashes_pairs(entry.hashes)>>

\* serde_json on a list: its members between brackets, commas between them.
RECURSIVE json_members(_)
json_members(texts) ==
    IF texts = <<>> THEN <<>>
    ELSE IF Len(texts) = 1 THEN Head(texts)
    ELSE Head(texts) \o <<",">> \o json_members(Tail(texts))

json_array(texts) == <<"[">> \o json_members(texts) \o <<"]">>

json_bool(b) == IF b THEN <<"true">> ELSE <<"false">>

json_pair(pair) == json_array(<<json_string(pair[1]), json_string(pair[2])>>)

\* serde_json::to_vec of the tuple.
canonical_json(c) ==
    json_array(<<json_string(c[1]), json_string(c[2]), json_string(c[3]), json_string(c[4]),
                 json_string(c[5]), json_string(c[6]), json_string(c[7]), json_string(c[8]),
                 json_array([i \in 1..Len(c[9]) |-> json_string(c[9][i])]),
                 json_bool(c[10]),
                 json_array([i \in 1..Len(c[11]) |-> json_pair(c[11][i])])>>)

\* The digest of a text: two texts have one digest only when they are equal.
compute_sha256_hex(text) == <<"sha256:">> \o text

lock_entry_hash_of(entry) == compute_sha256_hex(canonical_json(canonical_tuple(entry)))

lock_key_text(entry) ==
    <<"lock::">> \o to_ascii_lowercase(str_trim(entry.source)) \o <<"::", trim_lowercase(entry.content_type), "::">>
        \o to_ascii_lowercase(str_trim(entry.project_id))

\* sort_by on rows that begin with their key: a row goes behind the rows of
\* its key that came before it.
RECURSIVE insert_row(_, _)
insert_row(sorted, row) ==
    IF sorted = <<>> THEN <<row>>
    ELSE IF text_less(row[1], Head(sorted)[1]) THEN <<row>> \o sorted
    ELSE <<Head(sorted)>> \o insert_row(Tail(sorted), row)

RECURSIVE sort_rows(_, _)
sort_rows(rows, sorted) ==
    IF rows = <<>> THEN sorted ELSE sort_rows(Tail(rows), insert_row(sorted, Head(rows)))

\* collect_sync_state puts the lock entries in the order of their keys.
sorted_lock_entries(lock_entries) ==
    [i \in 1..Len(lock_entries) |->
        sort_rows([j \in 1..Len(lock_entries) |-> <<lock_key_text(lock_entries[j]), lock_entries[j]>>], <<>>)[i][2]]

\* state_manifest of a state without config files.
state_manifest_rows(lock_entries) ==
    sort_rows([i \in 1..Len(lock_entries) |->
                  <<lock_key_text(lock_entries[i]), lock_entry_hash_of(lock_entries[i]), <<"lock_entry">> >>], <<>>)

manifest_json(rows) ==
    json_array([i \in 1..Len(rows) |->
                   json_array(<<json_string(rows[i][1]), json_string(rows[i][2]), json_string(rows[i][3])>>)])

state_hash_of(lock_entries) ==
    compute_sha256_hex(manifest_json(state_manifest_rows(sorted_lock_entries(lock_entries))))

\* Names of hash algorithms and hash values as a lock file may write them.
HashNames == {<<"s", "h", "a", "1">>, <<" ", "S", "H", "A", "1">>, <<"m", "d", "5">>}

HashValues == {<<"a", "a">>, <<" ", "A", " ", "a">>, <<"b", "b">>, <<" ">>}

WorldNames == {<<"w", "1">>, <<"w", "2">>}

\* The hashes of an entry at most, and its worlds at most.
MaxHashes == 2
MaxWorlds == 2

distinct_names(pairs) == \A i, j \in 1..Len(pairs) : i # j => pairs[i][1] # pairs[j][1]

\* A HashMap in the order it hands out its pairs: no name twice as written.
HashMaps == {pairs \in UNION {[1..n -> HashNames \X HashValues] : n \in 0..MaxHashes} : distinct_names(pairs)}

WorldLists == UNION {[1..n -> WorldNames] : n \in 0..MaxWorlds}

BaseEntry ==
    [source |-> <<"C", "f">>, project_id |-> <<"a">>, version_id |-> <<"v", "1">>, name |-> <<"A">>,
     version_number |-> <<"1">>, filename |-> <<"a", ".", "j", "a", "r">>, content_type |-> "datapack",
     target_scope |-> "world", target_worlds |-> <<>>, enabled |-> TRUE, hashes |-> <<>>]

\* Another entry of the lock file, from another source: it stands first in
\* the file and behind the first one in the order of keys.
OtherEntry == [BaseEntry EXCEPT !.source = <<"m", "r">>, !.project_id = <<"b">>, !.target_scope = "instance"]

lock_entries_with(entry) == <<OtherEntry, entry>>

\* collect_sync_state on the lock file with the entry: the hash of the
\* entry and the state hash.
Hashed(entry, op) ==
    [done |-> TRUE, op |-> op, entry |-> entry,
     lock_entry_hash |-> lock_entry_hash_of(entry),
     state_hash |-> state_hash_of(lock_entries_with(entry))]

\* Two hash values, or two names of algorithms, that differ in case and blanks only.
same_but_spelling(a, b) == to_ascii_lowercase(remove_whitespace(a)) = to_ascii_lowercase(remove_whitespace(b))

swap(s, i) == [k \in 1..Len(s) |-> IF k = i THEN s[i + 1] ELSE IF k = i + 1 THEN s[i] ELSE s[k]]

hashing_rest == <<sync_vars, net_vars, thread_vars, touched, drift, settings, more_vars>>

CollectSyncState ==
    /\ ~hashing.done
    /\ hashing' = Hashed(hashing.entry, "collect")
    /\ UNCHANGED hashing_rest

\* The map hands out two of its pairs the other way round.
ReorderHashes(i) ==
    /\ hashing.done
    /\ i \in 1..(Len(hashing.entry.hashes) - 1)
    /\ hashing' = Hashed([hashing.entry EXCEPT !.hashes = swap(@, i)], "reorder_hashes")
    /\ UNCHANGED hashing_rest

\* A hash value written in another case or with other blanks.
RespellHashValue(i, value) ==
    /\ hashing.done
    /\ i \in 1..Len(hashing.entry.hashes)
    /\ value # hashing.entry.hashes[i][2]
    /\ same_but_spelling(value, hashing.entry.hashes[i][2])
    /\ hashing' = Hashed([hashing.entry EXCEPT !.hashes[i][2] = value], "respell_value")
    /\ UNCHANGED hashing_rest

\* An algorithm of the entry once more, its name written another way, with
\* its value.
DuplicateAlgorithm(i, name, value) ==
    /\ hashing.done
    /\ i \in 1..Len(hashing.entry.hashes)
    /\ Len(hashing.entry.hashes) < MaxHashes
    /\ \A j \in 1..Len(hashing.entry.hashes) : hashing.entry.hashes[j][1] # name
    /\ same_but_spelling(name, hashing.entry.hashes[i][1])
    /\ same_but_spelling(value, hashing.entry.hashes[i][2])
    /\ hashing' = Hashed([hashing.entry EXCEPT !.hashes = Append(@, <<name, value>>)], "duplicate_algorithm")
    /\ UNCHANGED hashing_rest

ReorderWorlds(i) ==
    /\ hashing.done
    /\ i \in 1..(Len(hashing.entry.target_worlds) - 1)
    /\ hashing.entry.target_worlds[i] # hashing.entry.target_worlds[i + 1]
    /\ hashing' = Hashed([hashing.entry EXCEPT !.target_worlds = swap(@, i)], "reorder_worlds")
    /\ UNCHANGED hashing_rest

\* The entry moves to another version: its content changes.
UpdateVersion ==
    /\ hashing.done
    /\ hashing' = Hashed([hashing.entry EXCEPT !.version_id = IF @ = <<"v", "1">> THEN <<"v", "2">> ELSE <<"v", "1">>], "update_version")
    /\ UNCHANGED hashing_rest

HashInit ==
    /\ lock = [k \in LockKeys |-> Absent]
    /\ config = [k \in ConfigKeys |-> Absent]
    /\ files = [k \in LockKeys |-> FALSE]
    /\ peer_lock = [p \in Peers |-> [k \in LockKeys |-> Absent]]
    /\ peer_config = [p \in Peers |-> [k \in ConfigKeys |-> Absent]]
    /\ peer_files = [p \in Peers |-> [k \in LockKeys |-> FALSE]]
    /\ peer_up = [p \in Peers |-> TRUE]
    /\ provider_has = FALSE
    /\ session = Unlinked
    /\ result = NoResult
    /\ edits = 0
    /\ now = 0
    /\ seen_nonces = {}
    /\ accepted_since = [n \in Nonces |-> -1]
    /\ client_seen = {}
    /\ net_log = NoNetLog
    /\ store_file = NoFile
    /\ command = CommandIdle
    /\ listener = ListenerGone
    /\ listener_map = NoHandle
    /\ touched = NoTouch
    /\ drift = NoDrift
    /\ settings = NoSettings
    /\ MoreIdle
    /\ \E hashes \in HashMaps : \E worlds \in WorldLists :
          hashing = [done |-> FALSE, entry |-> [BaseEntry EXCEPT !.hashes = hashes, !.target_worlds = worlds]]

HashNext ==
    \/ CollectSyncState
    \/ \E i \in 1..MaxHashes : ReorderHashes(i)
    \/ \E i \in 1..MaxHashes : \E value \in HashValues : RespellHashValue(i, value)
    \/ \E i \in 1..MaxHashes : \E name \in HashNames : \E value \in HashValues : DuplicateAlgorithm(i, name, value)
    \/ \E i \in 1..MaxWorlds : ReorderWorlds(i)
    \/ UpdateVersion

HashSpec == HashInit /\ [][HashNext]_vars

(* ------------------------------- C28 ----------------------------------- *)
SpellingOps == {"reorder_hashes", "respell_value", "duplicate_algorithm", "reorder_worlds"}

\* C28: a lock entry written with the pairs of its hashes in another order,
\* with a hash value in another case or with other blanks, with an algorithm
\* named twice, or with its worlds in another order has the lock entry hash
\* it had, and the state that holds it has the state hash it had.
C28_HashIgnoresSpelling ==
    [][hashing.done /\ hashing'.done /\ hashing'.op \in SpellingOps =>
          /\ hashing'.entry # hashing.entry
          /\ hashing'.lock_entry_hash = hashing.lock_entry_hash
          /\ hashing'.state_hash = hashing.state_hash]_vars

\* The entry names one algorithm twice with two values, and the map has
\* handed out the two pairs the other way round; its worlds are not in order.
C28_Witness ==
    /\ hashing.done
    /\ hashing.op = "reorder_hashes"
    /\ Len(hashing.entry.hashes) = 2
    /\ hashing.entry.hashes[1] = <<<<" ", "S", "H", "A", "1">>, <<"b", "b">>>>
    /\ hashing.entry.hashes[2] = <<<<"s", "h", "a", "1">>, <<" ", "A", " ", "a">>>>
    /\ hashing.entry.target_worlds = <<<<"w", "2">>, <<"w", "1">>>>
    /\ normalized_hashes_pairs(hashing.entry.hashes) = <<<<<<"s", "h", "a", "1">>, <<"a", "a">>>>>>
    /\ hashing.lock_entry_hash # lock_entry_hash_of([hashing.entry EXCEPT !.hashes = <<hashing.entry.hashes[1]>>])


(* ------------------- the binary fetcher, byte by byte ------------------- *)
\* The standard alphabet of base64, which file responses use.
STANDARD ==
    <<"A", "B", "C", "D", "E", "F", "G", "H", "I", "J", "K", "L", "M", "N", "O", "P",
      "Q", "R", "S", "T", "U", "V", "W", "X", "Y", "Z", "a", "b", "c", "d", "e", "f",
      "g", "h", "i", "j", "k", "l", "m", "n", "o", "p", "q", "r", "s", "t", "u", "v",
      "w", "x", "y", "z", "0", "1", "2", "3", "4", "5", "6", "7", "8", "9", "+", "/">>

StandardSextetOf == [c \in {STANDARD[i] : i \in 1..Len(STANDARD)} |-> (CHOOSE i \in 1..Len(STANDARD) : STANDARD[i] = c) - 1]

\* The padding signs that fill the symbols of n bytes up to groups of four.
padding(n) == [i \in 1..((3 - (n % 3)) % 3) |-> "="]

\* BASE64_STANDARD.encode: four symbols for three bytes, padded.
standard_encode(bytes) ==
    [k \in 1..((4 * Len(bytes) + 2) \div 3) |-> STANDARD[sextet_at(bytes, k - 1) + 1]] \o padding(Len(bytes))

\* The symbols of a code before its padding signs.
RECURSIVE unpadded(_)
unpadded(code) ==
    IF code # <<>> /\ code[Len(code)] = "=" THEN unpadded(SubSeq(code, 1, Len(code) - 1)) ELSE code

standard_sextet(body, k) == IF k <= Len(body) THEN StandardSextetOf[body[k]] ELSE 0

standard_byte_at(body, i) ==
    CASE i % 3 = 0 -> standard_sextet(body, 4 * (i \div 3) + 1) * 4 + standard_sextet(body, 4 * (i \div 3) + 2) \div 16
      [] i % 3 = 1 -> (standard_sextet(body, 4 * (i \div 3) + 2) % 16) * 16 + standard_sextet(body, 4 * (i \div 3) + 3) \div 4
      [] OTHER -> (standard_sextet(body, 4 * (i \div 3) + 3) % 4) * 64 + standard_sextet(body, 4 * (i \div 3) + 4)

standard_trailing_bits(body) ==
    CASE Len(body) % 4 = 2 -> StandardSextetOf[body[Len(body)]] % 16
      [] Len(body) % 4 = 3 -> StandardSextetOf[body[Len(body)]] % 4
      [] OTHER -> 0

\* BASE64_STANDARD.decode: an error for a code that is not made of groups of
\* four, for a symbol outside the alphabet, for padding that is not the one
\* the encoder writes, and for trailing bits that are not zero.
standard_decode(code) ==
    IF Len(code) % 4 # 0 THEN [ok |-> FALSE, bytes |-> <<>>]
    ELSE IF \E k \in 1..Len(unpadded(code)) : unpadded(code)[k] \notin DOMAIN StandardSextetOf THEN [ok |-> FALSE, bytes |-> <<>>]
    ELSE IF Len(unpadded(code)) % 4 = 1 THEN [ok |-> FALSE, bytes |-> <<>>]
    ELSE IF standard_trailing_bits(unpadded(code)) # 0 THEN [ok |-> FALSE, bytes |-> <<>>]
    ELSE [ok |-> TRUE, bytes |-> [i \in 1..((3 * Len(unpadded(code))) \div 4) |-> standard_byte_at(unpadded(code), i - 1)]]

\* A byte as two digits of base sixteen, and bytes as the row of their digits.
HexDigits == <<"0", "1", "2", "3", "4", "5", "6", "7", "8", "9", "a", "b", "c", "d", "e", "f">>

hex(bytes) == [i \in 1..(2 * Len(bytes)) |-> HexDigits[(IF i % 2 = 1 THEN bytes[(i + 1) \div 2] \div 16 ELSE bytes[i \div 2] % 16) + 1]]

\* format!("{:x}", Sha256::digest(bytes)) and the same with Sha512: a text of
\* small hex digits which differs for different bytes, and between the two.
sha256_hex(bytes) == <<"2", "5", "6">> \o hex(bytes)

sha512_hex(bytes) == <<"5", "1", "2">> \o hex(bytes)

is_ascii_hexdigit(c) == c \in {HexDigits[i] : i \in 1..Len(HexDigits)} \cup {"A", "B", "C", "D", "E", "F"}

normalize_hash_hex(input) == to_ascii_lowercase(SelectSeq(str_trim(input), is_ascii_hexdigit))

\* An Option without a value.
None == [some |-> FALSE, value |-> <<>>]

\* The loop of verify_bytes_against_entry_hashes over the declared hashes, in
\* the order the map hands them out: the first usable value of each kind.
RECURSIVE expected_hashes(_, _, _)
expected_hashes(hashes, expected_sha512, expected_sha256) ==
    IF hashes = <<>> THEN [sha512 |-> expected_sha512, sha256 |-> expected_sha256]
    ELSE IF ~expected_sha512.some /\ to_ascii_lowercase(str_trim(Head(hashes)[1])) \in {<<"s", "h", "a", "5", "1", "2">>, <<"s", "h", "a", "-", "5", "1", "2">>}
         THEN expected_hashes(Tail(hashes),
                  IF normalize_hash_hex(Head(hashes)[2]) # <<>> THEN Some(normalize_hash_hex(Head(hashes)[2])) ELSE expected_sha512,
                  expected_sha256)
    ELSE IF ~expected_sha256.some /\ to_ascii_lowercase(str_trim(Head(hashes)[1])) \in {<<"s", "h", "a", "2", "5", "6">>, <<"s", "h", "a", "-", "2", "5", "6">>}
         THEN expected_hashes(Tail(hashes), expected_sha512,
                  IF normalize_hash_hex(Head(hashes)[2]) # <<>> THEN Some(normalize_hash_hex(Head(hashes)[2])) ELSE expected_sha256)
    ELSE expected_hashes(Tail(hashes), expected_sha512, expected_sha256)

\* "ok", or the error.
verify_bytes_against_entry_hashes(bytes, entry) ==
    LET expected == expected_hashes(entry.hashes, None, None) IN
    IF ~expected.sha512.some /\ ~expected.sha256.some THEN "ok"
    ELSE IF expected.sha512.some
         THEN IF sha512_hex(bytes) # expected.sha512.value THEN "sha512 mismatch" ELSE "ok"
    ELSE IF sha256_hex(bytes) # expected.sha256.value THEN "sha256 mismatch" ELSE "ok"


\* supports_binary_sync on a lock entry as it is written.
entry_supports_binary_sync(entry) == trim_lowercase(entry.content_type) \in {"mods", "resourcepacks", "shaderpacks", "datapacks"}

\* A content file: whether it is on disk, its bytes and where they came from.
NoContent == [present |-> FALSE, bytes |-> <<>>, from |-> "none"]

lock_entry_file_missing(disk, entry) ==
    IF lock_entry_paths(entry) = {} THEN TRUE ELSE ~disk[entry.key].present

\* write_lock_entry_bytes: the number of files written, or the error; the
\* rename of the temporary file fails when the disk refuses it.
write_lock_entry_bytes(rename_ok, entry) ==
    IF lock_entry_paths(entry) = {} THEN [ok |-> FALSE, wrote |-> 0, error |-> "no writable target paths for entry"]
    ELSE IF ~rename_ok[entry.key] THEN [ok |-> FALSE, wrote |-> 0, error |-> "replace content file failed"]
    ELSE [ok |-> TRUE, wrote |-> Cardinality(lock_entry_paths(entry)), error |-> "none"]

\* The endpoints the fetcher asks for a key, in its order: the preferred peer
\* when it is in the table of the trusted peers that are online, then the
\* table in the order the map hands it out.  A peer stands for its endpoint.
probe_order(s, online, map_order, preferred_peer) ==
    LET peer_endpoint_by_id == {p \in PeerIds(s) : p \in online /\ p \in trusted_set(s)} IN
    (IF preferred_peer \in peer_endpoint_by_id THEN <<preferred_peer>> ELSE <<>>)
        \o SelectSeq(map_order, LAMBDA p : p \in peer_endpoint_by_id /\ p # preferred_peer)

\* What the loop over the endpoints of one entry ends with.
Probed(synced, from, bytes, last_error, error) ==
    [synced |-> synced, from |-> from, bytes |-> bytes, last_error |-> last_error, error |-> error]

\* The loop of sync_lock_entry_binaries over the endpoints of one entry:
\* error is the error the question mark operator returns from the fetcher.
RECURSIVE endpoint_loop(_, _, _, _, _)
endpoint_loop(endpoints, replies, rename_ok, entry, last_error) ==
    IF endpoints = <<>> THEN Probed(FALSE, "none", <<>>, last_error, "none")
    ELSE LET response == replies[Head(endpoints)] IN
         IF response.kind = "error"
         THEN endpoint_loop(Tail(endpoints), replies, rename_ok, entry, "request failed")
         ELSE IF ~response.found
         THEN endpoint_loop(Tail(endpoints), replies, rename_ok, entry, "peer did not return file bytes")
         ELSE IF ~response.bytes_b64.some
         THEN endpoint_loop(Tail(endpoints), replies, rename_ok, entry, "peer response missing file bytes")
         ELSE IF ~standard_decode(response.bytes_b64.value).ok
         THEN Probed(FALSE, "none", <<>>, last_error, "decode transferred content failed")
         ELSE IF response.sha256.some /\ sha256_hex(standard_decode(response.bytes_b64.value).bytes) # response.sha256.value
         THEN endpoint_loop(Tail(endpoints), replies, rename_ok, entry, "peer file hash verification failed")
         ELSE IF ~write_lock_entry_bytes(rename_ok, entry).ok
         THEN Probed(FALSE, "none", <<>>, last_error, write_lock_entry_bytes(rename_ok, entry).error)
         ELSE Probed(TRUE, Head(endpoints), standard_decode(response.bytes_b64.value).bytes, last_error, "none")

Modrinth == <<"m", "o", "d", "r", "i", "n", "t", "h">>

CurseForge == <<"c", "u", "r", "s", "e", "f", "o", "r", "g", "e">>

\* download_lock_entry_bytes_from_provider: kind is "bytes" for Ok(Some),
\* "none" for Ok(None) and "error" for Err.  catalog is what the provider's
\* service answers: bytes, nothing (no key, no file id) or a failure.
download_lock_entry_bytes_from_provider(catalog, entry) ==
    IF to_ascii_lowercase(str_trim(entry.source)) \notin {Modrinth, CurseForge} THEN [kind |-> "none", bytes |-> <<>>]
    ELSE IF to_ascii_lowercase(str_trim(entry.source)) = Modrinth /\ str_trim(entry.version_id) = <<>> THEN [kind |-> "none", bytes |-> <<>>]
    ELSE IF catalog.kind # "bytes" THEN [kind |-> catalog.kind, bytes |-> <<>>]
    ELSE IF verify_bytes_against_entry_hashes(catalog.bytes, entry) # "ok" THEN [kind |-> "error", bytes |-> <<>>]
    ELSE [kind |-> "bytes", bytes |-> catalog.bytes]

\* One entry of the fetcher's loop.  g is what the fetcher is given; st is
\* [disk, failure_count, actions, warnings, error], error being the error
\* the fetcher returns with, after which no entry is looked at.
fetch_entry(st, entry, g) ==
    LET missing == lock_entry_file_missing(st.disk, entry)
        should_force_refresh == g.preferred_peer_by_key[entry.key] # NoPeer
    IN  IF st.error # "none" THEN st
        ELSE IF ~entry_supports_binary_sync(entry) THEN st
        ELSE IF ~content_type_sync_enabled(g.toggles, entry.content_type) THEN st
        ELSE IF ~missing /\ ~should_force_refresh THEN st
        ELSE \* bound once
             CHOOSE out \in {
                 IF probed.error # "none" THEN [st EXCEPT !.error = probed.error]
                 ELSE IF probed.synced
                 THEN [st EXCEPT !.disk[entry.key] = [present |-> TRUE, bytes |-> probed.bytes, from |-> probed.from],
                                 !.actions = Append(@, Action("lock_entry", entry.key,
                                     IF should_force_refresh THEN g.preferred_peer_by_key[entry.key] ELSE "peer",
                                     "Synced binary"))]
                 ELSE IF ~g.provider_client THEN [st EXCEPT !.failure_count = @ + 1, !.warnings = Append(@, <<entry.key, probed.last_error>>)]
                 ELSE IF download_lock_entry_bytes_from_provider(g.catalog[entry.key], entry).kind = "bytes"
                 THEN IF ~write_lock_entry_bytes(g.rename_ok, entry).ok
                      THEN [st EXCEPT !.error = write_lock_entry_bytes(g.rename_ok, entry).error]
                      ELSE [st EXCEPT !.disk[entry.key] = [present |-> TRUE, from |-> "provider",
                                                           bytes |-> download_lock_entry_bytes_from_provider(g.catalog[entry.key], entry).bytes],
                                      !.actions = Append(@, Action("lock_entry", entry.key, "provider", "Recovered binary"))]
                 ELSE IF download_lock_entry_bytes_from_provider(g.catalog[entry.key], entry).kind = "error"
                 THEN [st EXCEPT !.failure_count = @ + 1, !.warnings = Append(@, <<entry.key, "provider fallback failed">>)]
                 ELSE [st EXCEPT !.failure_count = @ + 1, !.warnings = Append(@, <<entry.key, probed.last_error>>)]
                 : probed \in {endpoint_loop(probe_order(g.session, g.online, g.map_order, g.preferred_peer_by_key[entry.key]),
                                             g.replies[entry.key], g.rename_ok, entry, "no reachable peer had the file")}} : TRUE

RECURSIVE fetch_entries(_, _, _)
fetch_entries(st, lock_map, g) ==
    IF lock_map = <<>> THEN st ELSE fetch_entries(fetch_entry(st, Head(lock_map), g), Tail(lock_map), g)

\* One call of sync_lock_entry_binaries on the disk as it is: the entries of
\* the lock map in the order the map hands them out.
sync_binaries(disk, actions, warnings, g) ==
    fetch_entries([disk |-> disk, failure_count |-> 0, actions |-> actions, warnings |-> warnings, error |-> "none"], g.lock_map, g)


\* The bytes of a content file as its owner published it, and other bytes.
GoodBytes == <<106, 107>>

OtherBytes == <<104, 111>>

\* request_lock_entry_file failed: the peer is not reachable, or its frame
\* does not verify.
RequestFailed == [kind |-> "error"]

FileResponse(found, sha256, bytes_b64) ==
    [kind |-> "file_response", found |-> found, sha256 |-> sha256, bytes_b64 |-> bytes_b64]

\* The file_response of the listener for a content file with these bytes.
file_response_for(bytes) == FileResponse(TRUE, Some(sha256_hex(bytes)), Some(standard_encode(bytes)))

\* What peer A can answer: nothing, no file, a response without bytes, the
\* file, bytes that are not the ones its digest is of, a code that is no
\* base64 (its padding is missing), and bytes without a digest.
RepliesOfA ==
    {RequestFailed, FileResponse(FALSE, None, None), FileResponse(TRUE, None, None),
     file_response_for(GoodBytes),
     FileResponse(TRUE, Some(sha256_hex(GoodBytes)), Some(standard_encode(OtherBytes))),
     FileResponse(TRUE, Some(sha256_hex(GoodBytes)), Some(<<"a", "G", "k">>)),
     FileResponse(TRUE, None, Some(standard_encode(OtherBytes)))}

RepliesOfB ==
    {file_response_for(GoodBytes),
     FileResponse(TRUE, Some(sha256_hex(GoodBytes)), Some(standard_encode(OtherBytes)))}

\* What the provider's service answers for an entry.
CatalogAnswers ==
    {[kind |-> "none", bytes |-> <<>>], [kind |-> "error", bytes |-> <<>>],
     [kind |-> "bytes", bytes |-> GoodBytes], [kind |-> "bytes", bytes |-> OtherBytes]}

Sha512Name == <<"s", "h", "a", "5", "1", "2">>

\* The hashes an entry can declare for GoodBytes: none, its sha512, its
\* sha256 in capitals between blanks under the name SHA-256, its sha512 with
\* a sha256 of other bytes, and a sha512 without a value.
DeclaredHashes ==
    {<<>>,
     << <<Sha512Name, sha512_hex(GoodBytes)>> >>,
     << << <<"S", "H", "A", "-", "2", "5", "6">>, <<" ", "2", "5", "6", "6", "A", "6", "B", " ">> >> >>,
     << << <<"s", "h", "a", "2", "5", "6">>, sha256_hex(OtherBytes)>>, <<Sha512Name, sha512_hex(GoodBytes)>> >>,
     << <<Sha512Name, <<" ">> >> >>}

\* Where the fetched entry goes: a mod, a datapack of a world, and a
\* datapack that names no world.
EntryTargets == {<<"mods", <<"w">> >>, <<"datapacks", <<"w">> >>, <<"datapacks", <<>> >>}

EntrySources == {<<"M", "o", "d", "r", "i", "n", "t", "h">>, <<"l", "o", "c", "a", "l">>}

\* The entry whose content file is fetched.
FetchedEntry(target, source, hashes) ==
    [key |-> "e1", source |-> source, version_id |-> <<"v">>, content_type |-> target[1], world |-> target[2],
     filename |-> <<"a">>, hashes |-> hashes]

\* A second entry of the lock map: a mod any peer serves.
SecondEntry ==
    [key |-> "e2", source |-> <<"l", "o", "c", "a", "l">>, version_id |-> <<"v">>, content_type |-> "mods", world |-> <<>>,
     filename |-> <<"b">>, hashes |-> <<>>]

FetchKeys_ == {"e1", "e2"}

AllSynced == [sync_mods |-> TRUE, sync_resourcepacks |-> TRUE, sync_shaderpacks |-> TRUE, sync_datapacks |-> TRUE]

\* The session of the instance: peers A and B, both or B alone trusted.
FetchSession(trusted) ==
    [Unlinked EXCEPT !.linked = TRUE, !.peers = <<"A", "B">>, !.trusted_peer_ids = trusted,
                     !.trusted_peer_ids_initialized = TRUE]

fetching_rest == <<sync_vars, net_vars, thread_vars, touched, drift, settings, hashing, ordering, late_vars>>

\* reconcile_internal from the fetcher on: the fetcher, the retry of a
\* manual run, the status, and the store written.  An error of the fetcher
\* is returned as it is, before the status and the store.
ReconcileBinaries(mode) ==
    /\ fetching.given
    /\ fetching.run = "given"
    /\ \E first \in {sync_binaries(fetching.disk, <<>>, <<>>, fetching)} :
         IF first.error # "none"
         THEN fetching' = [fetching EXCEPT !.run = "returned", !.mode = mode, !.disk = first.disk,
                               !.out = [ok |-> FALSE, error |-> first.error, status |-> "none",
                                        binary_sync_failures |-> 0, actions |-> <<>>, warnings |-> <<>>],
                               !.store_written = FALSE]
         ELSE \E last \in {IF first.failure_count > 0 /\ mode # "prelaunch"
                           THEN sync_binaries(first.disk, first.actions, first.warnings, fetching)
                           ELSE first} :
              IF last.error # "none"
              THEN fetching' = [fetching EXCEPT !.run = "returned", !.mode = mode, !.disk = last.disk,
                                    !.out = [ok |-> FALSE, error |-> last.error, status |-> "none",
                                             binary_sync_failures |-> 0, actions |-> <<>>, warnings |-> <<>>],
                                    !.store_written = FALSE]
              ELSE fetching' = [fetching EXCEPT !.run = "returned", !.mode = mode, !.disk = last.disk,
                                    !.out = [ok |-> TRUE, error |-> "none",
                                             status |-> ReconcileStatus(fetching.session, mode, <<>>, last.failure_count,
                                                            Cardinality(PeerIds(fetching.session) \ fetching.online), 0,
                                                            [state_hash |-> <<>>])[1],
                                             binary_sync_failures |-> last.failure_count,
                                             actions |-> last.actions, warnings |-> last.warnings],
                                    !.store_written = TRUE]
    /\ UNCHANGED fetching_rest

\* The content files are as they were before the run, for another run.
RestoreDisk ==
    /\ fetching.given
    /\ fetching.run = "returned"
    /\ fetching' = [fetching EXCEPT !.run = "given", !.mode = "none", !.disk = fetching.before,
                        !.out = [ok |-> FALSE, error |-> "none", status |-> "none", binary_sync_failures |-> 0,
                                 actions |-> <<>>, warnings |-> <<>>],
                        !.store_written = FALSE]
    /\ UNCHANGED fetching_rest

FetchInit ==
    /\ lock = [k \in LockKeys |-> Absent]
    /\ config = [k \in ConfigKeys |-> Absent]
    /\ files = [k \in LockKeys |-> FALSE]
    /\ peer_lock = [p \in Peers |-> [k \in LockKeys |-> Absent]]
    /\ peer_config = [p \in Peers |-> [k \in ConfigKeys |-> Absent]]
    /\ peer_files = [p \in Peers |-> [k \in LockKeys |-> FALSE]]
    /\ peer_up = [p \in Peers |-> TRUE]
    /\ provider_has = FALSE
    /\ session = Unlinked
    /\ result = NoResult
    /\ edits = 0
    /\ now = 0
    /\ seen_nonces = {}
    /\ accepted_since = [n \in Nonces |-> -1]
    /\ client_seen = {}
    /\ net_log = NoNetLog
    /\ store_file = NoFile
    /\ command = CommandIdle
    /\ listener = ListenerGone
    /\ listener_map = NoHandle
    /\ touched = NoTouch
    /\ drift = NoDrift
    /\ settings = NoSettings
    /\ hashing = NoHashing
    /\ ordering = NoOrdering
    /\ LateIdle
    /\ \E reply_a \in RepliesOfA : \E reply_b \in RepliesOfB : \E answer \in CatalogAnswers :
       \E hashes \in DeclaredHashes : \E target \in EntryTargets : \E source \in EntrySources :
       \E rename_ok \in BOOLEAN : \E trusted \in {<<"A", "B">>, <<"B">>} :
       \E map_order \in {<<"A", "B">>, <<"B", "A">>} : \E preferred \in {NoPeer, "A"} :
       \E first_entry \in FetchKeys_ : \E second_present \in BOOLEAN :
         \E disk \in {[k \in FetchKeys_ |-> IF k = "e2" /\ second_present
                                            THEN [present |-> TRUE, bytes |-> OtherBytes, from |-> "before"]
                                            ELSE NoContent]} :
          fetching = [given |-> TRUE, run |-> "given", mode |-> "none",
                      session |-> FetchSession(trusted), online |-> {"A", "B"}, toggles |-> AllSynced,
                      lock_map |-> IF first_entry = "e1"
                                   THEN <<FetchedEntry(target, source, hashes), SecondEntry>>
                                   ELSE <<SecondEntry, FetchedEntry(target, source, hashes)>>,
                      map_order |-> map_order,
                      preferred_peer_by_key |-> [k \in FetchKeys_ |-> IF k = "e1" THEN preferred ELSE NoPeer],
                      replies |-> [k \in FetchKeys_ |-> IF k = "e1" THEN [p \in Peers |-> IF p = "A" THEN reply_a ELSE reply_b]
                                                        ELSE [p \in Peers |-> file_response_for(GoodBytes)]],
                      provider_client |-> TRUE,
                      catalog |-> [k \in FetchKeys_ |-> IF k = "e1" THEN answer ELSE [kind |-> "none", bytes |-> <<>>]],
                      rename_ok |-> [k \in FetchKeys_ |-> k = "e2" \/ rename_ok],
                      before |-> disk, disk |-> disk,
                      out |-> [ok |-> FALSE, error |-> "none", status |-> "none", binary_sync_failures |-> 0,
                               actions |-> <<>>, warnings |-> <<>>],
                      store_written |-> FALSE]

FetchNext ==
    \/ \E mode \in Modes : ReconcileBinaries(mode)
    \/ RestoreDisk

FetchSpec == FetchInit /\ [][FetchNext]_vars


(* ------------------------------- C31 ----------------------------------- *)
\* The endpoints asked for the fetched entry, in the fetcher's order.
FetchOrder ==
    probe_order(fetching.session, fetching.online, fetching.map_order, fetching.preferred_peer_by_key["e1"])

Decodable(response) ==
    response.kind = "file_response" /\ response.found /\ response.bytes_b64.some /\ standard_decode(response.bytes_b64.value).ok

\* The response carries a digest that is not the one of its bytes.
Mismatching(response) ==
    Decodable(response) /\ response.sha256.some /\ response.sha256.value # sha256_hex(standard_decode(response.bytes_b64.value).bytes)

\* The response passes the fetcher's check of it.
Verifies(response) == Decodable(response) /\ ~Mismatching(response)

\* The provider has bytes for the fetched entry which match its declared hash.
ProviderVerifies ==
    LET entry == CHOOSE e \in {fetching.lock_map[i] : i \in 1..Len(fetching.lock_map)} : e.key = "e1"
        expected == expected_hashes(entry.hashes, None, None)
    IN  /\ fetching.provider_client
        /\ to_ascii_lowercase(str_trim(entry.source)) \in {Modrinth, CurseForge}
        /\ fetching.catalog["e1"].kind = "bytes"
        /\ expected.sha512.some \/ expected.sha256.some
        /\ verify_bytes_against_entry_hashes(fetching.catalog["e1"].bytes, entry) = "ok"

\* A run of the fetcher has returned in which a peer sent the fetched entry
\* with a digest that is not the one of its bytes.
MismatchRun ==
    /\ fetching.given
    /\ fetching.run = "returned"
    /\ \E i \in 1..Len(FetchOrder) : Mismatching(fetching.replies["e1"][FetchOrder[i]])

\* The bytes of a response with a wrong digest are not the ones on disk.
MismatchedBytesNotWritten ==
    MismatchRun =>
        \A i \in 1..Len(FetchOrder) :
            Mismatching(fetching.replies["e1"][FetchOrder[i]]) => fetching.disk["e1"].from # FetchOrder[i]

\* The key of the fetched entry is counted as a failure, with a warning.
CountedAsFailure ==
    /\ fetching.out.ok
    /\ fetching.out.binary_sync_failures >= 1
    /\ \E i \in 1..Len(fetching.out.warnings) : fetching.out.warnings[i][1] = "e1"

\* C31: bytes of a file_response whose sha256 is not the digest of its
\* bytes are never written; the fetcher goes on with the other trusted
\* endpoints that are online and then with the provider, and when no source
\* verifies the key is counted as a failure.
C31_MismatchAbandonsEndpoint ==
    MismatchRun =>
        /\ \A i \in 1..Len(FetchOrder) :
              Mismatching(fetching.replies["e1"][FetchOrder[i]]) => fetching.disk["e1"].from # FetchOrder[i]
        /\ (/\ \A i \in 1..Len(FetchOrder) : ~Verifies(fetching.replies["e1"][FetchOrder[i]])
            /\ ~ProviderVerifies)
           => CountedAsFailure


(* ------------------------------- C32 ----------------------------------- *)
\* The entry of the lock map the fetcher is given under the key e1.
TheFetchedEntry == CHOOSE e \in {fetching.lock_map[i] : i \in 1..Len(fetching.lock_map)} : e.key = "e1"

\* The values an entry declares under one of these names, as hex digits in
\* small letters; a value without a hex digit declares nothing.
DeclaredUnder(entry, names) ==
    {normalize_hash_hex(entry.hashes[i][2]) : i \in {j \in 1..Len(entry.hashes) : to_ascii_lowercase(str_trim(entry.hashes[j][1])) \in names}} \ {<<>>}

DeclaredSha512(entry) == DeclaredUnder(entry, {Sha512Name, <<"s", "h", "a", "-", "5", "1", "2">>})

DeclaredSha256(entry) == DeclaredUnder(entry, {<<"s", "h", "a", "2", "5", "6">>, <<"s", "h", "a", "-", "2", "5", "6">>})

\* The bytes match the hash the entry declares, its sha512 before its sha256.
MatchDeclared(bytes, entry) ==
    IF DeclaredSha512(entry) # {} THEN sha512_hex(bytes) \in DeclaredSha512(entry)
    ELSE DeclaredSha256(entry) # {} /\ sha256_hex(bytes) \in DeclaredSha256(entry)

\* A run has returned after which the file of the fetched entry is made of
\* bytes of the provider.
ProviderWritten ==
    /\ fetching.given
    /\ fetching.run = "returned"
    /\ fetching.disk["e1"].from = "provider"

\* When the entry declares a usable hash, the provider's bytes on disk match it.
ProviderBytesMatchWhenDeclared ==
    (ProviderWritten /\ DeclaredSha512(TheFetchedEntry) \cup DeclaredSha256(TheFetchedEntry) # {})
        => MatchDeclared(fetching.disk["e1"].bytes, TheFetchedEntry)

\* C32: bytes of the provider are written only when the entry declares a
\* sha512 or a sha256 and the bytes match it, the sha512 before the sha256;
\* for an entry without a usable hash no bytes of the provider are written.
C32_ProviderBytesNeedDeclaredHash ==
    ProviderWritten => MatchDeclared(fetching.disk["e1"].bytes, TheFetchedEntry)


(* ------------------------------- C33 ----------------------------------- *)
FetchReturned == fetching.given /\ fetching.run = "returned"

\* The only errors the fetcher returns with are the ones of decoding and of
\* writing; an unreachable peer, a missing file and a wrong digest are none.
FetcherErrorsAreDecodeOrWrite ==
    (FetchReturned /\ ~fetching.out.ok)
        => fetching.out.error \in {"decode transferred content failed", "no writable target paths for entry",
                                   "replace content file failed"}

\* C33: failing to obtain, decode or write the binary of one entry never
\* ends the fetcher or the run: the entry is counted as a failure with a
\* warning, the other entry is still fetched, a status is derived and the
\* session is stored.
C33_EntryFailureNeverAborts ==
    FetchReturned =>
        /\ fetching.out.ok
        /\ fetching.out.status # "none"
        /\ fetching.store_written
        /\ ~fetching.disk["e1"].present => CountedAsFailure
        /\ fetching.disk["e2"].present


(* ------------------ the order of a reconcile's actions ------------------ *)
\* Two lock keys and two config keys, each pair in the order of its texts.
MergeLockKeys == <<"lock::a", "lock::b">>

MergeConfigKeys == <<"config::c", "config::d">>

MergeKeySet == {"lock::a", "lock::b", "config::c", "config::d"}

\* lock_entry_map and config_file_map build a HashMap: the orders in which
\* such a map can hand out the keys it holds (a value of 0 is no entry).
iteration_orders(keys, map) ==
    LET present == SelectSeq(keys, LAMBDA k : map[k] # Absent) IN
    IF Len(present) = 2 THEN {present, <<present[2], present[1]>>} ELSE {present}

merge_hash(kind, v) == IF kind = "lock_entry" THEN lock_entry_hash(v) ELSE config_file_hash(v)

\* The body of the loops of reconcile_internal over a peer's lock entries
\* and config files: the three-way merge of one remote key into the maps.
merge_remote_key(acc, kind, key, peer_id, theirs, s, baseline) ==
    LET local == acc.current[key]
        has_base == key \in DOMAIN baseline
        local_changed == IF has_base THEN local = Absent \/ merge_hash(kind, local) # baseline[key] ELSE local # Absent
        remote_changed == IF has_base THEN baseline[key] # merge_hash(kind, theirs) ELSE TRUE
    IN  IF kind = "lock_entry" /\ ~lock_entry_sync_enabled(s, key) THEN acc
        ELSE IF local # Absent /\ merge_hash(kind, local) = merge_hash(kind, theirs) THEN acc
        ELSE IF ~local_changed \/ local = Absent
             THEN [acc EXCEPT !.current[key] = theirs, !.actions = Append(@, Action(kind, key, peer_id, "Applied"))]
        ELSE IF remote_changed /\ should_seed_from_peer(s, peer_id)
             THEN [acc EXCEPT !.current[key] = theirs, !.actions = Append(@, Action(kind, key, peer_id, "Applied initial baseline"))]
        ELSE IF remote_changed
             THEN [acc EXCEPT !.conflicts = Append(@, [kind |-> kind, key |-> key, peer_id |-> peer_id,
                                                        mine_hash |-> merge_hash(kind, local),
                                                        theirs_hash |-> merge_hash(kind, theirs)])]
        ELSE acc

RECURSIVE merge_remote_keys(_, _, _, _, _, _, _)
merge_remote_keys(acc, kind, order, peer_id, remote, s, baseline) ==
    IF order = <<>> THEN acc
    ELSE merge_remote_keys(merge_remote_key(acc, kind, Head(order), peer_id, remote[Head(order)], s, baseline),
                           kind, Tail(order), peer_id, remote, s, baseline)

\* The peer loop of reconcile_internal over the peers that answer and are
\* trusted: the peers in the stored order, of each peer the lock entries and
\* then the config files, each map in the order it hands its keys out.
RECURSIVE merge_peers(_, _, _, _, _, _, _)
merge_peers(acc, peers, states, s, baseline, lock_order, config_order) ==
    IF peers = <<>> THEN acc
    ELSE merge_peers(
             merge_remote_keys(
                 merge_remote_keys(acc, "lock_entry", lock_order[Head(peers)], Head(peers), states[Head(peers)], s, baseline),
                 "config_file", config_order[Head(peers)], Head(peers), states[Head(peers)], s, baseline),
             Tail(peers), states, s, baseline, lock_order, config_order)

\* The session of a merge: its peers in their stored order, all trusted,
\* with the last-good snapshot of these values when there is one.
MergeSession(peers, snapshot, values) ==
    [Unlinked EXCEPT !.linked = TRUE, !.peers = peers, !.trusted_peer_ids = peers,
                     !.trusted_peer_ids_initialized = TRUE,
                     !.last_good_snapshot =
                         IF snapshot
                         THEN [present |-> TRUE, state_hash |-> <<>>,
                               manifest |-> {<<k, merge_hash(IF k \in {"lock::a", "lock::b"} THEN "lock_entry" ELSE "config_file", values[k]),
                                               IF k \in {"lock::a", "lock::b"} THEN "lock_entry" ELSE "config_file">> :
                                             k \in {x \in MergeKeySet : values[x] # Absent}}]
                         ELSE NoSnapshot]

ordering_rest == <<sync_vars, net_vars, thread_vars, touched, drift, settings, hashing, fetching, late_vars>>

\* One reconcile of the given session, local state and peer states: every
\* map of the run hands out its keys in one of its orders.
MergeRun ==
    /\ ordering.given
    /\ Len(ordering.runs) < 2
    /\ \E lock_order \in [Peers -> {<<>>} \cup UNION {iteration_orders(MergeLockKeys, ordering.states[p]) : p \in Peers}] :
       \E config_order \in [Peers -> {<<>>} \cup UNION {iteration_orders(MergeConfigKeys, ordering.states[p]) : p \in Peers}] :
          /\ \A p \in Peers : lock_order[p] \in iteration_orders(MergeLockKeys, ordering.states[p])
          /\ \A p \in Peers : config_order[p] \in iteration_orders(MergeConfigKeys, ordering.states[p])
          /\ ordering' = [ordering EXCEPT !.runs = Append(@,
                 merge_peers([current |-> ordering.local, actions |-> <<>>, conflicts |-> <<>>],
                             ordering.session.peers, ordering.states, ordering.session,
                             lock_manifest_map(ordering.session.last_good_snapshot), lock_order, config_order))]
    /\ UNCHANGED ordering_rest

\* The results are read and dropped.
ForgetRuns ==
    /\ ordering.given
    /\ Len(ordering.runs) = 2
    /\ ordering' = [ordering EXCEPT !.runs = <<>>]
    /\ UNCHANGED ordering_rest

OrderInit ==
    /\ lock = [k \in LockKeys |-> Absent]
    /\ config = [k \in ConfigKeys |-> Absent]
    /\ files = [k \in LockKeys |-> FALSE]
    /\ peer_lock = [p \in Peers |-> [k \in LockKeys |-> Absent]]
    /\ peer_config = [p \in Peers |-> [k \in ConfigKeys |-> Absent]]
    /\ peer_files = [p \in Peers |-> [k \in LockKeys |-> FALSE]]
    /\ peer_up = [p \in Peers |-> TRUE]
    /\ provider_has = FALSE
    /\ session = Unlinked
    /\ result = NoResult
    /\ edits = 0
    /\ now = 0
    /\ seen_nonces = {}
    /\ accepted_since = [n \in Nonces |-> -1]
    /\ client_seen = {}
    /\ net_log = NoNetLog
    /\ store_file = NoFile
    /\ command = CommandIdle
    /\ listener = ListenerGone
    /\ listener_map = NoHandle
    /\ touched = NoTouch
    /\ drift = NoDrift
    /\ settings = NoSettings
    /\ hashing = NoHashing
    /\ fetching = NoFetching
    /\ LateIdle
    /\ \E local \in [MergeKeySet -> 0..1] : \E of_a \in [MergeKeySet -> {0, MaxVersion}] :
       \E of_b \in {[k \in MergeKeySet |-> Absent], [k \in MergeKeySet |-> MaxVersion]} :
       \E peers \in {<<"A">>, <<"A", "B">>, <<"B", "A">>} : \E snapshot \in BOOLEAN :
          ordering = [given |-> TRUE, local |-> local, states |-> [p \in Peers |-> IF p = "A" THEN of_a ELSE of_b],
                      session |-> MergeSession(peers, snapshot, local), runs |-> <<>>]

OrderNext ==
    \/ MergeRun
    \/ ForgetRuns

OrderSpec == OrderInit /\ [][OrderNext]_vars


(* ------------------------------- C34 ----------------------------------- *)
\* The place of a peer in the session's list, and of a key among the keys:
\* the lock keys before the config keys, each kind in the order of its texts.
PeerPlace(peer_id) == CHOOSE i \in 1..Len(ordering.session.peers) : ordering.session.peers[i] = peer_id

KeyPlace(key) == CHOOSE i \in 1..Len(MergeLockKeys \o MergeConfigKeys) : (MergeLockKeys \o MergeConfigKeys)[i] = key

KindPlace(kind) == IF kind = "lock_entry" THEN 1 ELSE 2

\* The records follow the peers, and within a peer the kinds.
ByPeerThenKind(records) ==
    \A i, j \in 1..Len(records) :
        i < j => \/ PeerPlace(records[i].peer_id) < PeerPlace(records[j].peer_id)
                 \/ /\ records[i].peer_id = records[j].peer_id
                    /\ KindPlace(records[i].kind) <= KindPlace(records[j].kind)

\* The records follow the peers, and within a peer the keys.
ByPeerThenKey(records) ==
    \A i, j \in 1..Len(records) :
        i < j => \/ PeerPlace(records[i].peer_id) < PeerPlace(records[j].peer_id)
                 \/ /\ records[i].peer_id = records[j].peer_id
                    /\ KeyPlace(records[i].key) < KeyPlace(records[j].key)

TwoRuns == ordering.given /\ Len(ordering.runs) = 2

\* Two runs on the same input adopt the same values, take the same actions
\* and record the same conflicts, whatever the order; both emit them peer
\* after peer in the stored order, lock entries before config files.
RunsAgreeUpToKeyOrder ==
    TwoRuns =>
        /\ ordering.runs[1].current = ordering.runs[2].current
        /\ {ordering.runs[1].actions[i] : i \in 1..Len(ordering.runs[1].actions)}
               = {ordering.runs[2].actions[i] : i \in 1..Len(ordering.runs[2].actions)}
        /\ Len(ordering.runs[1].actions) = Len(ordering.runs[2].actions)
        /\ {ordering.runs[1].conflicts[i] : i \in 1..Len(ordering.runs[1].conflicts)}
               = {ordering.runs[2].conflicts[i] : i \in 1..Len(ordering.runs[2].conflicts)}
        /\ Len(ordering.runs[1].conflicts) = Len(ordering.runs[2].conflicts)
        /\ \A r \in 1..2 : ByPeerThenKind(ordering.runs[r].actions) /\ ByPeerThenKind(ordering.runs[r].conflicts)

\* C34: for a fixed session, local state and peer states a reconcile emits
\* its actions and conflicts in one order, the peers in the stored order and
\* within a peer the lock keys and then the config keys in the order of
\* their texts; two runs on the same input yield the same sequences of
\* actions and of conflicts and the same merged lock and config.
C34_ReconcileOrderDeterministic ==
    TwoRuns =>
        /\ ordering.runs[1].actions = ordering.runs[2].actions
        /\ ordering.runs[1].conflicts = ordering.runs[2].conflicts
        /\ ordering.runs[1].current = ordering.runs[2].current
        /\ \A r \in 1..2 : ByPeerThenKey(ordering.runs[r].actions) /\ ByPeerThenKey(ordering.runs[r].conflicts)


(* ----------------- commands that write the store back ------------------ *)
\* reconcile_internal, preview_friend_link_drift_inner,
\* sync_friend_link_selected_inner, resolve_friend_link_conflicts_inner and
\* set_friend_link_guardrails all start with read_store and get_session_mut,
\* work on their copy and end with write_store of that copy. None of them
\* adds or removes a peer of its copy.
CommandReadStore ==
    /\ command.pc = "idle"
    /\ \E r \in {read_store_at_path(store_file)} :
          command' =
             IF ~r.ok \/ ~r.store.linked
             THEN [command EXCEPT !.pc = "returned", !.ret = "err"]
             ELSE [command EXCEPT !.pc = "write_back", !.sent = -1, !.store = r.store]
    /\ UNCHANGED <<store_file, listener, listener_map>>
    /\ UNCHANGED <<sync_vars, net_vars, touched, drift, settings, hashing, more_vars>>

\* The command's write_store, one call of the write per step.
CommandWriteStore ==
    /\ command.pc = "write_back"
    /\ store_file' = fs_write(store_file, to_string_pretty(command.store), command.sent)
    /\ command' =
          IF fs_write_done(to_string_pretty(command.store), command.sent)
          THEN [command EXCEPT !.pc = "returned", !.sent = -1, !.ret = "ok"]
          ELSE [command EXCEPT !.sent = @ + 1]
    /\ UNCHANGED <<listener, listener_map>>
    /\ UNCHANGED <<sync_vars, net_vars, touched, drift, settings, hashing, more_vars>>

\* The command has returned and the next one can be called.
CommandReturns ==
    /\ command.pc = "returned"
    /\ command' = CommandIdle
    /\ UNCHANGED <<store_file, listener, listener_map>>
    /\ UNCHANGED <<sync_vars, net_vars, touched, drift, settings, hashing, more_vars>>

\* A linked instance with its listener running: hellos on the listener
\* thread, commands that read the store and write it back on the command
\* thread.
WriteBackInit == ThreadInit

WriteBackNext ==
    \/ CommandReadStore
    \/ CommandWriteStore
    \/ CommandReturns
    \/ ListenerLoop
    \/ \E p \in Peers : ListenerAccept(p)
    \/ ListenerWouldBlock
    \/ ListenerReadStore
    \/ ListenerWriteStore
    \/ ListenerWriteFails

WriteBackSpec == WriteBackInit /\ [][WriteBackNext]_vars

\* The store file holds a whole document and no write is under way.
StoreAtRest ==
    /\ read_store_at_path(store_file).ok
    /\ listener.pc # "write_store"
    /\ command.pc = "write_back" => command.sent = -1

\* The peers of the stored session.
StoredPeers ==
    {read_store_at_path(store_file).store.peers[i] :
        i \in 1..Len(read_store_at_path(store_file).store.peers)}

\* A command never removes the session: a store at rest keeps being linked.
StoreStaysLinked == StoreAtRest => read_store_at_path(store_file).store.linked

\* The command's write_store opens the store file, which empties it.
CommandOverwrites ==
    /\ command.pc = "write_back"
    /\ command.sent = -1
    /\ command'.pc = "write_back"
    /\ command'.sent = 0

\* C35: once the listener has answered a hello with hello_ack, the peer it
\* added stays in the stored session's peer list: a command that writes its
\* copy of the store over a whole store file has every stored peer in that
\* copy, whenever it read the store.
C35_AckedPeerStaysStored ==
    [][CommandOverwrites /\ StoreAtRest => StoredPeers \subseteq IdSet(command.store.peers)]_vars

(* ----------------------- the config file editor ------------------------ *)
\* Two editors of one allowlisted config file: each loads the file with
\* read_instance_config_file and saves with write_instance_config_file,
\* every file system call of the save a step of its own.
Editors == {"e1", "e2"}

\* What is in the file before any editor saves.
FirstContent == "c0"

\* The text an editor saves: text, and none that the binary check refuses.
content_of(editor) == IF editor = "e1" THEN "c1" ELSE "c2"

\* expected_modified_at = None.
NoExpected == -1

NoTmp == [exists |-> FALSE, content |-> FirstContent, modified_at |-> 0]

EditorIdle == [pc |-> "idle", expected |-> NoExpected, seen_writes |-> 0, renamed_over |-> 0, ret |-> "none"]

\* modified_millis: the modification time of a file in whole milliseconds.
modified_millis(meta) == meta.modified_at

\* The editor loads the file and keeps its modified_at; it saves with that
\* value or without an expected_modified_at.
ReadConfigFile(editor, with_expected) ==
    /\ editing.given
    /\ editing.editors[editor].pc = "idle"
    /\ editing' = [editing EXCEPT
          !.editors[editor] =
             [@ EXCEPT !.pc = "loaded",
                       !.expected = IF with_expected THEN modified_millis(editing.file) ELSE NoExpected,
                       !.seen_writes = editing.file.writes]]

\* write_instance_config_file up to the binary check: the file exists, and
\* the caller's expected_modified_at is compared with the file's.
WriteConfigCheck(editor) ==
    /\ editing.given
    /\ editing.editors[editor].pc = "loaded"
    /\ editing' = [editing EXCEPT
          !.editors[editor] =
             IF /\ editing.editors[editor].expected # NoExpected
                /\ editing.editors[editor].expected # modified_millis(editing.file)
             THEN [@ EXCEPT !.pc = "returned", !.ret = "File changed on disk"]
             ELSE [@ EXCEPT !.pc = "write_tmp"]]

\* fs::write of the temporary file, whose name depends on the path alone.
WriteConfigTmp(editor) ==
    /\ editing.given
    /\ editing.editors[editor].pc = "write_tmp"
    /\ editing' = [editing EXCEPT
          !.tmp = [exists |-> TRUE, content |-> content_of(editor), modified_at |-> editing.clock],
          !.editors[editor] = [@ EXCEPT !.pc = "rename"]]

\* fs::write of the temporary file fails.
WriteConfigTmpFails(editor) ==
    /\ editing.given
    /\ editing.editors[editor].pc = "write_tmp"
    /\ editing' = [editing EXCEPT
          !.editors[editor] = [@ EXCEPT !.pc = "returned", !.ret = "write temp config file failed"]]

\* fs::rename of the temporary file over the config file, which takes the
\* temporary file's modification time; without a temporary file the rename
\* fails.
WriteConfigRename(editor) ==
    /\ editing.given
    /\ editing.editors[editor].pc = "rename"
    /\ editing' =
          IF editing.tmp.exists
          THEN [editing EXCEPT
                  !.file = [content |-> editing.tmp.content,
                            modified_at |-> editing.tmp.modified_at,
                            writes |-> editing.file.writes + 1],
                  !.tmp = NoTmp,
                  !.editors[editor] = [@ EXCEPT !.pc = "returned", !.ret = "Config file saved",
                                                !.renamed_over = editing.file.writes]]
          ELSE [editing EXCEPT
                  !.editors[editor] = [@ EXCEPT !.pc = "returned", !.ret = "replace config file failed"]]

\* A millisecond passes.
ClockTicks ==
    /\ editing.given
    /\ editing.clock < MaxClockSteps
    /\ editing' = [editing EXCEPT !.clock = @ + 1]

\* The editors close and the file is as it was.
EditorsClose ==
    /\ editing.given
    /\ \A editor \in Editors : editing.editors[editor].pc = "returned"
    /\ editing' = [editing EXCEPT
          !.clock = 0,
          !.file = [content |-> FirstContent, modified_at |-> 0, writes |-> 0],
          !.tmp = NoTmp,
          !.editors = [editor \in Editors |-> EditorIdle]]

editing_rest == <<sync_vars, net_vars, thread_vars, touched, drift, settings, hashing, fetching, ordering, serving>>

\* The sync engine and the frame checks at rest.
EngineAtRest ==
    /\ lock = [k \in LockKeys |-> Absent]
    /\ config = [k \in ConfigKeys |-> Absent]
    /\ files = [k \in LockKeys |-> FALSE]
    /\ peer_lock = [p \in Peers |-> [k \in LockKeys |-> Absent]]
    /\ peer_config = [p \in Peers |-> [k \in ConfigKeys |-> Absent]]
    /\ peer_files = [p \in Peers |-> [k \in LockKeys |-> FALSE]]
    /\ peer_up = [p \in Peers |-> TRUE]
    /\ provider_has = FALSE
    /\ session = Unlinked
    /\ result = NoResult
    /\ edits = 0
    /\ now = 0
    /\ seen_nonces = {}
    /\ accepted_since = [n \in Nonces |-> -1]
    /\ client_seen = {}
    /\ net_log = NoNetLog

\* A config file written in the millisecond the clock shows, and two editors
\* that have not loaded it yet.
EditInit ==
    /\ EngineAtRest
    /\ store_file = NoFile
    /\ command = CommandIdle
    /\ listener = ListenerGone
    /\ listener_map = NoHandle
    /\ touched = NoTouch
    /\ drift = NoDrift
    /\ settings = NoSettings
    /\ hashing = NoHashing
    /\ fetching = NoFetching
    /\ ordering = NoOrdering
    /\ serving = NoServing
    /\ editing = [given |-> TRUE,
                  clock |-> 0,
                  file |-> [content |-> FirstContent, modified_at |-> 0, writes |-> 0],
                  tmp |-> NoTmp,
                  editors |-> [editor \in Editors |-> EditorIdle]]

EditNext ==
    \/ \E editor \in Editors : \E with_expected \in BOOLEAN :
          ReadConfigFile(editor, with_expected) /\ UNCHANGED editing_rest
    \/ \E editor \in Editors : WriteConfigCheck(editor) /\ UNCHANGED editing_rest
    \/ \E editor \in Editors : WriteConfigTmp(editor) /\ UNCHANGED editing_rest
    \/ \E editor \in Editors : WriteConfigTmpFails(editor) /\ UNCHANGED editing_rest
    \/ \E editor \in Editors : WriteConfigRename(editor) /\ UNCHANGED editing_rest
    \/ ClockTicks /\ UNCHANGED editing_rest
    \/ EditorsClose /\ UNCHANGED editing_rest

EditSpec == EditInit /\ [][EditNext]_vars

\* The editor's save with an expected_modified_at has succeeded.
SavedWithExpected(editor) ==
    /\ editing.editors[editor].pc = "returned"
    /\ editing.editors[editor].ret = "Config file saved"
    /\ editing.editors[editor].expected # NoExpected

\* A save succeeds only when no write to the file was completed between the
\* editor's load and the editor's own rename.
SucceedsOnlyIfUnwritten ==
    \A editor \in Editors :
        SavedWithExpected(editor)
            => editing.editors[editor].renamed_over = editing.editors[editor].seen_writes

\* Of two editors that loaded the file at the same modification time and save
\* with it, at most one succeeds.
AtMostOneSucceeds ==
    \A a \in Editors : \A b \in Editors \ {a} :
        /\ SavedWithExpected(a)
        /\ SavedWithExpected(b)
        => editing.editors[a].expected # editing.editors[b].expected

\* The save that fails on the modification time has written nothing: the file
\* holds what it held, never that editor's text.
MismatchLeavesContent ==
    \A editor \in Editors :
        /\ editing.editors[editor].pc = "returned"
        /\ editing.editors[editor].ret = "File changed on disk"
        => /\ editing.file.content # content_of(editor)
           /\ editing.tmp.exists => editing.tmp.content # content_of(editor)

\* C36: a save with expected_modified_at = m succeeds only if no other write
\* to the file was completed since the file had modification time m, a save
\* refused for the modification time leaves the content alone, and of two
\* editors that loaded the file at m and save with m at most one succeeds.
C36_ExpectedMtimeGuardsWrites ==
    editing.given =>
        /\ SucceedsOnlyIfUnwritten
        /\ MismatchLeavesContent
        /\ AtMostOneSucceeds


(* ------------------------- the listener threads ------------------------ *)
\* The listener threads of one instance, the process-wide listener map, and
\* the commands that call ensure_listener, on the command thread and on a
\* worker, every access to the map a step of its own.
Callers == {"command", "worker"}

\* The threads the process can have at one time.
ListenerSlots == {1, 2}

\* The groups an invite or a new session can name.
Groups == {"g1", "g2"}

NoListenerHandle == [registered |-> FALSE, thread |-> 0, port |-> 0]

\* stop is the thread's end of the stop channel: open, sent (a message waits),
\* or dropped (the sender is gone and no message will ever come).
NoThread == [alive |-> FALSE, port |-> 0, group |-> "none", stop |-> "open"]

NoStoredSession == [linked |-> FALSE, group |-> "none", port |-> 0]

CallerIdle == [pc |-> "idle", session |-> NoStoredSession, thread |-> 0]

NoFrameHandled == [handled |-> FALSE, group |-> "none", accepted |-> FALSE, registered |-> FALSE]

\* No command is inside ensure_listener or before its write of the store.
Quiet == \A c \in Callers : serving.callers[c].pc = "idle"

port_in_use(port) == \E t \in ListenerSlots : serving.threads[t].alive /\ serving.threads[t].port = port

\* The ports the system hands out, and the first of them that is free.
EphemeralPorts == {EphemeralPort + t - 1 : t \in ListenerSlots}

free_port == CHOOSE p \in EphemeralPorts :
                /\ ~port_in_use(p)
                /\ \A q \in EphemeralPorts : q < p => port_in_use(q)

\* The port a bind of the requested port yields: port 0 asks the system for
\* a free one.
bound_port(requested) == IF requested = 0 THEN free_port ELSE requested

free_slot == CHOOSE t \in ListenerSlots :
                /\ ~serving.threads[t].alive
                /\ \A u \in ListenerSlots : u < t => serving.threads[u].alive

\* A command reads the store and has the session it will hand to
\* ensure_listener: get_status and reconcile the stored one,
\* create_session the stored one or a new one, join_session a new one of the
\* invite's group; a new session has listener_port 0.
CommandStart(c, op, group) ==
    /\ serving.given
    /\ ~serving.last.handled
    /\ serving.callers[c].pc = "idle"
    /\ op = "get_status" => serving.stored.linked
    /\ serving' = [serving EXCEPT
          !.callers[c] =
             [@ EXCEPT !.pc = "lookup",
                       !.session = IF op = "get_status" \/ (op = "create" /\ serving.stored.linked)
                                   THEN serving.stored
                                   ELSE [linked |-> TRUE, group |-> group, port |-> 0]]]

\* ensure_listener: the map is locked and looked up; an entry ends the call
\* with the entry's port.
EnsureLookup(c) ==
    /\ serving.given
    /\ ~serving.last.handled
    /\ serving.callers[c].pc = "lookup"
    /\ serving' = [serving EXCEPT
          !.callers[c] =
             IF serving.map.registered
             THEN [@ EXCEPT !.pc = "store", !.session.port = serving.map.port]
             ELSE [@ EXCEPT !.pc = "bind"]]

\* ensure_listener: the bind and the spawn of the thread, which takes the
\* session's group_id and shared secret with it.
EnsureBind(c) ==
    /\ serving.given
    /\ ~serving.last.handled
    /\ serving.callers[c].pc = "bind"
    /\ \E t \in ListenerSlots : ~serving.threads[t].alive
    /\ serving' =
          IF serving.callers[c].session.port # 0 /\ port_in_use(serving.callers[c].session.port)
          THEN [serving EXCEPT
                  !.callers[c] = CallerIdle]
          ELSE [serving EXCEPT
                  !.threads[free_slot] =
                     [alive |-> TRUE,
                      port |-> bound_port(serving.callers[c].session.port),
                      group |-> serving.callers[c].session.group,
                      stop |-> "open"],
                  !.callers[c] = [@ EXCEPT !.pc = "insert", !.thread = free_slot]]

\* ensure_listener: the map is locked again and the handle inserted; a handle
\* that was there is dropped, and its sender with it.
EnsureInsert(c) ==
    /\ serving.given
    /\ ~serving.last.handled
    /\ serving.callers[c].pc = "insert"
    /\ serving' = [serving EXCEPT
          !.map = [registered |-> TRUE, thread |-> serving.callers[c].thread,
                   port |-> serving.threads[serving.callers[c].thread].port],
          !.threads = [t \in ListenerSlots |->
                          IF /\ serving.map.registered
                             /\ t = serving.map.thread
                             /\ t # serving.callers[c].thread
                             /\ serving.threads[t].stop = "open"
                          THEN [serving.threads[t] EXCEPT !.stop = "dropped"]
                          ELSE serving.threads[t]],
          !.callers[c] = [@ EXCEPT !.pc = "store",
                                   !.session.port = serving.threads[serving.callers[c].thread].port]]

\* The command stores its session and returns; the next command can be called.
CommandStore(c) ==
    /\ serving.given
    /\ ~serving.last.handled
    /\ serving.callers[c].pc = "store"
    /\ serving' = [serving EXCEPT
          !.stored = serving.callers[c].session,
          !.callers[c] = CallerIdle]

\* leave_session: the session is removed from the store, and stop_listener
\* takes the handle out of the map and sends on its channel.
LeaveAndStop ==
    /\ serving.given
    /\ ~serving.last.handled
    /\ Quiet
    /\ serving.stored.linked \/ serving.map.registered
    /\ serving' = [serving EXCEPT
          !.stored = NoStoredSession,
          !.map = NoListenerHandle,
          !.threads = [t \in ListenerSlots |->
                          IF serving.map.registered /\ t = serving.map.thread
                          THEN [serving.threads[t] EXCEPT !.stop = "sent"]
                          ELSE serving.threads[t]]]

\* The thread at the top of its loop: try_recv is Ok only when a message
\* waits; the thread then ends and its socket is closed.
ListenerPolls(t) ==
    /\ serving.given
    /\ ~serving.last.handled
    /\ serving.threads[t].alive
    /\ serving.threads[t].stop = "sent"
    /\ serving' = [serving EXCEPT !.threads[t] = NoThread]

\* While no command runs, a frame signed for the given group reaches the
\* thread's socket: handle_incoming_frame compares it with the group_id the
\* thread was spawned with.
ListenerHandles(t, group) ==
    /\ serving.given
    /\ ~serving.last.handled
    /\ Quiet
    /\ serving.threads[t].alive
    /\ serving.threads[t].stop # "sent"
    /\ serving' = [serving EXCEPT
          !.last = [handled |-> TRUE,
                    group |-> group,
                    accepted |-> group = serving.threads[t].group,
                    registered |-> serving.map.registered /\ serving.map.thread = t]]

\* The frame has been answered and the connection is closed.
ListenerAnswered ==
    /\ serving.given
    /\ serving.last.handled
    /\ serving' = [serving EXCEPT !.last = NoFrameHandled]

\* The launcher is closed and started again: the threads and the map are
\* gone, the store is kept.
ProcessRestarts ==
    /\ serving.given
    /\ ~serving.last.handled
    /\ Quiet
    /\ \E t \in ListenerSlots : serving.threads[t].alive
    /\ serving' = [serving EXCEPT
          !.map = NoListenerHandle,
          !.threads = [t \in ListenerSlots |-> NoThread],
          !.callers = [c \in Callers |-> CallerIdle],
          !.last = NoFrameHandled]

serving_rest == <<sync_vars, net_vars, thread_vars, touched, drift, settings, hashing, fetching, ordering, editing>>

\* An instance without a session and without a listener.
ServeInit ==
    /\ EngineAtRest
    /\ store_file = NoFile
    /\ command = CommandIdle
    /\ listener = ListenerGone
    /\ listener_map = NoHandle
    /\ touched = NoTouch
    /\ drift = NoDrift
    /\ settings = NoSettings
    /\ hashing = NoHashing
    /\ fetching = NoFetching
    /\ ordering = NoOrdering
    /\ editing = NoEditing
    /\ serving = [given |-> TRUE,
                  stored |-> NoStoredSession,
                  map |-> NoListenerHandle,
                  threads |-> [t \in ListenerSlots |-> NoThread],
                  callers |-> [c \in Callers |-> CallerIdle],
                  last |-> NoFrameHandled]

ServeNext ==
    \/ \E c \in Callers : \E op \in {"get_status", "create", "join"} : \E group \in Groups :
          CommandStart(c, op, group) /\ UNCHANGED serving_rest
    \/ \E c \in Callers : EnsureLookup(c) /\ UNCHANGED serving_rest
    \/ \E c \in Callers : EnsureBind(c) /\ UNCHANGED serving_rest
    \/ \E c \in Callers : EnsureInsert(c) /\ UNCHANGED serving_rest
    \/ \E c \in Callers : CommandStore(c) /\ UNCHANGED serving_rest
    \/ LeaveAndStop /\ UNCHANGED serving_rest
    \/ \E t \in ListenerSlots : ListenerPolls(t) /\ UNCHANGED serving_rest
    \/ \E t \in ListenerSlots : \E group \in Groups : ListenerHandles(t, group) /\ UNCHANGED serving_rest
    \/ ListenerAnswered /\ UNCHANGED serving_rest
    \/ ProcessRestarts /\ UNCHANGED serving_rest

ServeSpec == ServeInit /\ [][ServeNext]_vars

\* The thread is alive and has not been told to stop.
Serves(t) == serving.threads[t].alive /\ serving.threads[t].stop # "sent"

\* No thread has lost its sender: every thread that serves can be stopped.
EveryListenerStoppable ==
    serving.given => \A t \in ListenerSlots : serving.threads[t].alive => serving.threads[t].stop # "dropped"

\* A stored session with a fixed port never gets a second listener: the second bind fails.
OneListenerPerPort ==
    serving.given =>
        \A t \in ListenerSlots : \A u \in ListenerSlots \ {t} :
            serving.threads[t].alive /\ serving.threads[u].alive
                => serving.threads[t].port # serving.threads[u].port

\* C37: whenever no command is inside ensure_listener, at most one listener
\* thread of the instance serves, and it is the one the listener map holds,
\* so that stop_listener reaches it.
C37_OneRegisteredListener ==
    serving.given /\ Quiet =>
        \A t \in ListenerSlots : Serves(t) => serving.map.registered /\ serving.map.thread = t


\* The registered listener of a linked instance has handled a frame.
FrameAtRegisteredListener ==
    /\ serving.given
    /\ serving.last.handled
    /\ serving.last.registered
    /\ serving.stored.linked

\* C38: the registered listener accepts a frame exactly when the frame is
\* signed for the group of the session stored for the instance, also after
\* join_session has stored a session of another group.
C38_ListenerFollowsStoredGroup ==
    FrameAtRegisteredListener => (serving.last.accepted <=> serving.last.group = serving.stored.group)


(* ---------------------- peers that say hello later --------------------- *)
\* A host whose first peer A is trusted by initialization, with any local and
\* peer content; the content file of a local entry can be missing.
HostSession == normalize_session_friend_link_settings([Unlinked EXCEPT !.linked = TRUE, !.peers = <<"A">>])

HostInit ==
    /\ \E v \in [LockKeys -> 0..1] : \E has \in [LockKeys -> BOOLEAN] :
          /\ lock = v
          /\ files = [k \in LockKeys |-> v[k] # Absent /\ has[k]]
    /\ config = [k \in ConfigKeys |-> Absent]
    /\ \E theirs \in [Peers -> [LockKeys -> {0, MaxVersion}]] :
          /\ peer_lock = theirs
          /\ peer_files = [p \in Peers |-> [k \in LockKeys |-> theirs[p][k] # Absent]]
    /\ \E theirs \in [Peers -> [ConfigKeys -> {0, MaxVersion}]] : peer_config = theirs
    /\ peer_up = [p \in Peers |-> TRUE]
    /\ provider_has = FALSE
    /\ session = HostSession
    /\ result = NoResult
    /\ edits = 0
    /\ now = 0
    /\ seen_nonces = {}
    /\ accepted_since = [n \in Nonces |-> -1]
    /\ client_seen = {}
    /\ net_log = NoNetLog
    /\ ExtIdle

\* Hellos, guardrail changes and runs of reconcile at the host, while peers
\* come and go and the provider starts or stops serving.
HostNext ==
    \/ \E p \in Peers : Hello(p)
    \/ GetStatus
    \/ \E trusted_input \in TrustedInputs : \E sync_mods \in {"none", "true", "false"} :
          SetGuardrails(trusted_input, sync_mods)
    \/ \E mode \in Modes : \E fail_at \in FailPoints : Reconcile(mode, fail_at)
    \/ \E p \in Peers : PeerToggle(p)
    \/ ProviderToggle

HostSpec == HostInit /\ [][HostNext]_vars

\* The peers of session s that are not trusted.
UntrustedIn(s) == PeerIds(s) \ TrustedIn(s)

\* The step is a set_guardrails whose trusted_peer_ids name p.
GuardrailsName(p) ==
    \E trusted_input \in {t \in TrustedInputs : p \in {trim(id) : id \in IdSet(t)}} :
        \E sync_mods \in {"none", "true", "false"} : SetGuardrails(trusted_input, sync_mods)

\* What a run leaves on disk came from the local instance, from a trusted
\* peer that answered, or from the provider.
TakenFromTrustedOnly ==
    /\ \A k \in Keys :
          LocalValue(lock', config', k) # LocalValue(lock, config, k)
             => \E q \in TrustedIn(session) : peer_up[q] /\ PeerValue(q, k) = LocalValue(lock', config', k)
    /\ \A k \in LockKeys :
          files'[k] /\ ~files[k]
             => provider_has \/ \E q \in TrustedIn(session) : request_lock_entry_file(q, k)
    /\ \A i \in 1..Len(result'.actions) : result'.actions[i].peer_id \notin UntrustedIn(session)

\* C39: in a session whose trusted list is initialized, a peer that a hello
\* adds is not trusted, a peer that is not trusted becomes trusted only by a
\* set_guardrails that names it, and a reconcile, fetcher included, takes
\* nothing from a peer that is not trusted.
C39_HelloPeerStaysUntrusted ==
    [][session.trusted_peer_ids_initialized /\ session.linked =>
         /\ \A p \in Peers :
               /\ (p \notin PeerIds(session) /\ p \in PeerIds(session')) => p \notin TrustedIn(session')
               /\ (p \in UntrustedIn(session) /\ p \in TrustedIn(session')) => GuardrailsName(p)
         /\ result'.op = "reconcile" => TakenFromTrustedOnly]_vars

\* A run found the content file of a local entry missing while the only peer
\* that has it said hello after the trusted list was initialized: the run
\* did not get the file and counted the failure.
C39_Witness ==
    /\ result.op = "reconcile"
    /\ result.binary_sync_failures > 0
    /\ session.trusted_peer_ids_initialized
    /\ session.trusted_peer_ids = <<"A">>
    /\ \E k \in LockKeys :
          /\ lock[k] # Absent
          /\ ~files[k]
          /\ request_lock_entry_file("B", k)
          /\ ~request_lock_entry_file("A", k)
    /\ "B" \in UntrustedIn(session)
    /\ peer_up["B"]


(* ----------------------- who moves the baseline ------------------------ *)
\* The step stores a last-good snapshot that was not there before.
BaselineWritten ==
    /\ session.linked
    /\ session'.linked
    /\ session'.last_good_snapshot.present
    /\ session'.last_good_snapshot # session.last_good_snapshot

\* Every peer of the session answers a state request.
EveryPeerAnswers == \A p \in PeerIds(session) : request_state(p).ok

\* A run of reconcile, alone or at the end of resolve_conflicts, moves the
\* baseline only when every peer answered and it left no conflict pending.
ReconcileMovesBaselineWhenClean ==
    [][BaselineWritten /\ result'.op # "sync_selected"
          => /\ EveryPeerAnswers
             /\ session'.pending_conflicts = <<>>]_vars

\* C40: the last-good snapshot is written only by a run in which every peer
\* of the session answered its state request and after which no conflict is
\* pending, by sync_selected as by reconcile.
C40_BaselineOnlyWhenAllAnswered ==
    [][BaselineWritten
          => /\ EveryPeerAnswers
             /\ session'.pending_conflicts = <<>>]_vars

====
